---------------------------- MODULE Spec2Model ----------------------------
(***************************************************************************)
(* manim-gpt: the script validator (services/code_validator.py), the       *)
(* LangGraph refinement workflow (services/iterative_workflow.py), the     *)
(* in-memory session store (services/session_manager.py), the session      *)
(* updater (services/session_updater.py) and the session routes            *)
(* (api/session_routes.py).                                                *)
(***************************************************************************)
EXTENDS Integers, Sequences, FiniteSets, TLC

VARIABLES
    vcall,      \* one call of validate_code: its arguments and its outcome
    wf,         \* the WorkflowState of a run of the compiled graph, and the node it is at
    heap,       \* the SessionState objects ever created, by session id
    sessions,   \* the keys of SessionManager._sessions (each maps to its heap object)
    req,        \* the generate request / background task in flight for each session id
    manual,     \* the update-code request awaiting validation for each session id
    sub,        \* one call of a function that runs the renderer subprocess, step by step
    resp,       \* the last response to a status, delete or render request for each session id
    ret,        \* what the last call of a store method without a route returned
    chan        \* the progress channel of a run: its mode and the records emitted so far

vars == <<vcall, wf, heap, sessions, req, manual, sub, resp, ret, chan>>

\* Python's None: as a string where the value is a string, as a record where it is a record
None == "None"
NoneRec == [is_none |-> TRUE]

(***************************************************************************)
(* Scripts.  A script is the text handed to the validator; the model keeps *)
(* of a text exactly what the validator reads from it:                     *)
(*   syn        what ast.parse(code) does: returns, raises SyntaxError     *)
(*              (with e.lineno a number, or None as for a null byte), or   *)
(*              raises another exception (RecursionError, MemoryError)     *)
(*   from_imp   "from manim import" occurs in the text                     *)
(*   plain_imp  "import manim" occurs in the text                          *)
(*   cls        "none": the text "class GeneratedScene" does not occur;    *)
(*              "mention": it occurs, but no class of that name is         *)
(*              declared (a comment, a string, class GeneratedSceneTwo);   *)
(*              "declared": a class GeneratedScene is declared             *)
(*   con        the same three cases for "def construct(self)"             *)
(***************************************************************************)
ParseOutcomes == {"ok", "SyntaxError", "SyntaxError without lineno", "Exception"}
Occurrences == {"none", "mention", "declared"}

AllScripts ==
    {s \in [syn : ParseOutcomes, from_imp : BOOLEAN, plain_imp : BOOLEAN,
            cls : Occurrences, con : Occurrences] :
        \* a text that does not parse declares nothing
        s.syn # "ok" => (s.cls # "declared" /\ s.con # "declared")}

(***************************************************************************)
(* What the renderer subprocess does when the dry run is spawned for a     *)
(* script: the outcome of `python -m manim --dry_run` and its stderr.      *)
(***************************************************************************)
MarkerLines == {"Traceback (most recent call last):", "NameError: name 'Circl' is not defined",
                "raise Exception"}
PlainLines == {"Rendering 50%"}

DryRuns ==
    { [kind |-> "exit0", stderr |-> <<>>],
      [kind |-> "exit0", stderr |-> <<"Rendering 50%">>],
      [kind |-> "exit0", stderr |-> <<"raise Exception">>],
      [kind |-> "nonzero", stderr |-> <<>>],
      [kind |-> "nonzero", stderr |-> <<"Rendering 50%">>],
      [kind |-> "nonzero", stderr |-> <<"Traceback (most recent call last):", "Rendering 50%",
                                        "NameError: name 'Circl' is not defined">>],
      [kind |-> "timeout", stderr |-> <<>>],
      [kind |-> "exception", stderr |-> <<>>],
      [kind |-> "cancelled", stderr |-> <<>>] }

\* `"Error" in line or "Exception" in line or "Traceback" in line`
HasMarker(line) == line \in MarkerLines

\* the for loop of validate_manim_dry_run over stderr_lines
RECURSIVE ExtractErrors(_)
ExtractErrors(lines) ==
    IF lines = <<>> THEN <<>>
    ELSE (IF HasMarker(Head(lines)) THEN <<Head(lines)>> ELSE <<>>) \o ExtractErrors(Tail(lines))

\* ValidationResult.__init__
ValidationResult ==
    [is_valid |-> FALSE, errors |-> <<>>, warnings |-> <<>>, error_details |-> None]

validate_python_syntax(code) ==
    CASE code.syn = "ok" -> [ValidationResult EXCEPT !.is_valid = TRUE]
      [] code.syn = "SyntaxError" ->
            [ValidationResult EXCEPT !.is_valid = FALSE,
                                     !.errors = <<"Syntax Error at line {e.lineno}: {e.msg}">>,
                                     !.error_details = "str(e)"]
      [] code.syn = "SyntaxError without lineno" ->
            [ValidationResult EXCEPT !.is_valid = FALSE,
                                     !.errors = <<"Syntax Error at line None: {e.msg}">>,
                                     !.error_details = "str(e)"]
      [] OTHER ->
            [ValidationResult EXCEPT !.is_valid = FALSE,
                                     !.errors = <<"Parse Error: {str(e)}">>,
                                     !.error_details = "str(e)"]

\* validate_manim_imports that never warns
validate_manim_imports_silent(code) ==
    [ValidationResult EXCEPT !.is_valid = TRUE]

validate_manim_imports(code) ==
    [ValidationResult EXCEPT
        !.warnings = IF ~code.from_imp /\ ~code.plain_imp
                     THEN <<"Code may be missing Manim imports">> ELSE <<>>,
        !.is_valid = TRUE]

\* validate_manim_structure that lets every script through
validate_manim_structure_accepts_all(code) ==
    [ValidationResult EXCEPT !.is_valid = TRUE]

validate_manim_structure(code) ==
    IF code.cls = "none"
    THEN [ValidationResult EXCEPT !.errors = <<"Code must contain a 'GeneratedScene' class">>,
                                  !.is_valid = FALSE]
    ELSE IF code.con = "none"
    THEN [ValidationResult EXCEPT !.errors = <<"GeneratedScene must have a 'construct' method">>,
                                  !.is_valid = FALSE]
    ELSE [ValidationResult EXCEPT !.is_valid = TRUE]

\* The outcome of a call: the value returned, or the exception raised.
Returned(v) == [raised |-> None, value |-> v]
Raised(e) == [raised |-> e, value |-> NoneRec]

\* validate_manim_dry_run scanning stderr for error lines whatever the return code
validate_manim_dry_run_scans_always(code, run) ==
    CASE run.kind = "timeout" ->
            Returned([ValidationResult EXCEPT
                        !.is_valid = FALSE,
                        !.errors = <<"Validation timeout after 600 seconds">>])
      [] run.kind = "nonzero" ->
            Returned([ValidationResult EXCEPT
                        !.is_valid = FALSE,
                        !.errors = IF ExtractErrors(run.stderr) = <<>>
                                   THEN <<"Manim validation failed">>
                                   ELSE ExtractErrors(run.stderr),
                        !.error_details = "STDOUT/STDERR"])
      [] run.kind = "exit0" ->
            Returned([ValidationResult EXCEPT !.is_valid = TRUE,
                                              !.errors = ExtractErrors(run.stderr)])
      [] run.kind = "cancelled" ->
            Raised("CancelledError")
      [] OTHER ->
            Returned([ValidationResult EXCEPT
                        !.is_valid = FALSE,
                        !.errors = <<"Validation error: {str(e)}">>,
                        !.error_details = "str(e)"])

\* validate_manim_dry_run without the "If no specific errors found" fallback
validate_manim_dry_run_no_fallback(code, run) ==
    CASE run.kind = "timeout" ->
            Returned([ValidationResult EXCEPT
                        !.is_valid = FALSE,
                        !.errors = <<"Validation timeout after 600 seconds">>])
      [] run.kind = "nonzero" ->
            Returned([ValidationResult EXCEPT
                        !.is_valid = FALSE,
                        !.errors = ExtractErrors(run.stderr),
                        !.error_details = "STDOUT/STDERR"])
      [] run.kind = "exit0" ->
            Returned([ValidationResult EXCEPT !.is_valid = TRUE])
      [] run.kind = "cancelled" ->
            Raised("CancelledError")
      [] OTHER ->
            Returned([ValidationResult EXCEPT
                        !.is_valid = FALSE,
                        !.errors = <<"Validation error: {str(e)}">>,
                        !.error_details = "str(e)"])

\* validate_manim_dry_run letting asyncio.TimeoutError escape instead of returning a result
validate_manim_dry_run_timeout_raises(code, run) ==
    CASE run.kind = "timeout" -> Raised("TimeoutError")
      [] run.kind = "nonzero" ->
            Returned([ValidationResult EXCEPT
                        !.is_valid = FALSE,
                        !.errors = IF ExtractErrors(run.stderr) = <<>>
                                   THEN <<"Manim validation failed">>
                                   ELSE ExtractErrors(run.stderr),
                        !.error_details = "STDOUT/STDERR"])
      [] run.kind = "exit0" ->
            Returned([ValidationResult EXCEPT !.is_valid = TRUE])
      [] run.kind = "cancelled" ->
            Raised("CancelledError")
      [] OTHER ->
            Returned([ValidationResult EXCEPT
                        !.is_valid = FALSE,
                        !.errors = <<"Validation error: {str(e)}">>,
                        !.error_details = "str(e)"])

validate_manim_dry_run(code, run) ==
    CASE run.kind = "timeout" ->
            Returned([ValidationResult EXCEPT
                        !.is_valid = FALSE,
                        !.errors = <<"Validation timeout after 600 seconds">>])
      [] run.kind = "nonzero" ->
            Returned([ValidationResult EXCEPT
                        !.is_valid = FALSE,
                        !.errors = IF ExtractErrors(run.stderr) = <<>>
                                   THEN <<"Manim validation failed">>
                                   ELSE ExtractErrors(run.stderr),
                        !.error_details = "STDOUT/STDERR"])
      [] run.kind = "exit0" ->
            Returned([ValidationResult EXCEPT !.is_valid = TRUE])
      [] run.kind = "cancelled" ->
            Raised("CancelledError")
      [] OTHER ->
            Returned([ValidationResult EXCEPT
                        !.is_valid = FALSE,
                        !.errors = <<"Validation error: {str(e)}">>,
                        !.error_details = "str(e)"])

\* The dict validate_code returns.
Verdict(valid, errs, warns, details) ==
    [is_valid |-> valid, errors |-> errs, warnings |-> warns, error_details |-> details]

(***************************************************************************)
(* validate_code(code, dry_run, progress_callback=None).  The outcome also *)
(* records, in order, the stage functions the call invoked.                *)
(***************************************************************************)
\* steps 2 to 4 of validate_code, reached with what step 1 collected
validate_code_after_syntax(code, dry_run, run, errors1, warnings1, details1) ==
    LET import_result == validate_manim_imports(code)
        structure_result == validate_manim_structure(code)
        dry == validate_manim_dry_run(code, run)
        warnings2 == warnings1 \o import_result.warnings
        errors3 == errors1 \o structure_result.errors
        warnings3 == warnings2 \o structure_result.warnings
    IN  IF ~structure_result.is_valid
        THEN [raised |-> None,
              value |-> Verdict(FALSE, errors3, warnings3, details1),
              calls |-> <<"validate_python_syntax", "validate_manim_imports",
                          "validate_manim_structure">>]
        ELSE IF dry_run
        THEN IF dry.raised # None
             THEN [raised |-> dry.raised, value |-> NoneRec,
                   calls |-> <<"validate_python_syntax", "validate_manim_imports",
                               "validate_manim_structure", "validate_manim_dry_run">>]
             ELSE IF ~dry.value.is_valid
             THEN [raised |-> None,
                   value |-> Verdict(FALSE, errors3 \o dry.value.errors,
                                     warnings3 \o dry.value.warnings,
                                     IF dry.value.error_details # None
                                     THEN "Manim Dry-Run: details" ELSE details1),
                   calls |-> <<"validate_python_syntax", "validate_manim_imports",
                               "validate_manim_structure", "validate_manim_dry_run">>]
             ELSE [raised |-> None,
                   value |-> Verdict(TRUE, errors3 \o dry.value.errors,
                                     warnings3 \o dry.value.warnings, None),
                   calls |-> <<"validate_python_syntax", "validate_manim_imports",
                               "validate_manim_structure", "validate_manim_dry_run">>]
        ELSE [raised |-> None,
              value |-> Verdict(TRUE, errors3, warnings3, None),
              calls |-> <<"validate_python_syntax", "validate_manim_imports",
                          "validate_manim_structure">>]

\* validate_code without the return after a failed syntax stage
validate_code_no_syntax_stop(code, dry_run, run) ==
    LET syntax_result == validate_python_syntax(code)
    IN  validate_code_after_syntax(code, dry_run, run, syntax_result.errors,
                                   syntax_result.warnings,
                                   IF syntax_result.error_details # None
                                   THEN "Syntax Validation: str(e)" ELSE None)

validate_code(code, dry_run, run) ==
    LET syntax_result == validate_python_syntax(code)
        errors1 == syntax_result.errors
        warnings1 == syntax_result.warnings
        details1 == IF syntax_result.error_details # None
                    THEN "Syntax Validation: str(e)" ELSE None
    IN  IF ~syntax_result.is_valid
        THEN [raised |-> None,
              value |-> Verdict(FALSE, errors1, warnings1, details1),
              calls |-> <<"validate_python_syntax">>]
        ELSE validate_code_after_syntax(code, dry_run, run, errors1, warnings1, details1)

(***************************************************************************)
(* Bounds of the model.                                                    *)
(***************************************************************************)
MaxBudget == 1          \* max_iterations of a request ranges over -1..MaxBudget
MaxRecords == 2         \* no record is added to a history this long
MaxStamps == 3          \* update_session stamps a session at most this many times

\* the session ids uuid4 hands out
Ids == {"s1"}
\* max_iterations: Optional[int] with no lower bound; 0 and negative values are accepted
BudgetValues == (0 - 1)..MaxBudget

(***************************************************************************)
(* The scripts and renderer behaviours the workflow and the routes are     *)
(* exercised with.                                                         *)
(***************************************************************************)
ValidScript ==
    [syn |-> "ok", from_imp |-> TRUE, plain_imp |-> FALSE, cls |-> "declared", con |-> "declared"]
NoClassScript ==
    [syn |-> "ok", from_imp |-> FALSE, plain_imp |-> FALSE, cls |-> "none", con |-> "none"]
BrokenScript ==
    [syn |-> "SyntaxError", from_imp |-> TRUE, plain_imp |-> FALSE, cls |-> "mention",
     con |-> "mention"]
Scripts == {ValidScript, NoClassScript, BrokenScript}

RunOk == [kind |-> "exit0", stderr |-> <<>>]
RunFails == [kind |-> "nonzero", stderr |-> <<"Traceback (most recent call last):", "Rendering 50%",
                                              "NameError: name 'Circl' is not defined">>]
RunCancelled == [kind |-> "cancelled", stderr |-> <<>>]
Runs == {RunOk, RunFails, RunCancelled}

\* what the acompletion call does: returns a script, or raises
Responses == {Returned(s) : s \in Scripts} \cup {Raised("APIError")}

(***************************************************************************)
(* The workflow: WorkflowState, the nodes and the edges of create_workflow *)
(***************************************************************************)
CodeIteration(number, code, verdict, status) ==
    [iteration_number |-> number, generated_code |-> code, validation_result |-> verdict,
     status |-> status]

\* initial_state of run_iterative_generation
initial_state(max_iterations) ==
    [max_iterations |-> max_iterations, current_iteration |-> 0, messages |-> <<>>,
     generated_code |-> NoneRec, validation_result |-> NoneRec, iterations_history |-> <<>>,
     status |-> "generating", error_message |-> None]

\* a user message built from the first record of the history instead of the last
user_message_from_first(state) ==
    IF state.current_iteration = 0
    THEN [kind |-> "prompt"]
    ELSE LET last_iteration == state.iterations_history[1]
         IN  [kind |-> "refinement",
              previous_code |-> last_iteration.generated_code,
              errors |-> last_iteration.validation_result.errors,
              warnings |-> last_iteration.validation_result.warnings]

\* the user message of generate_code_node
user_message(state) ==
    IF state.current_iteration = 0
    THEN [kind |-> "prompt"]
    ELSE LET last_iteration == state.iterations_history[Len(state.iterations_history)]
         IN  [kind |-> "refinement",
              previous_code |-> last_iteration.generated_code,
              errors |-> last_iteration.validation_result.errors,
              warnings |-> last_iteration.validation_result.warnings]

generate_code_node(state, response) ==
    IF state.current_iteration # 0 /\ state.iterations_history = <<>>
    THEN Raised("IndexError")
    ELSE IF response.raised # None
    THEN Raised(response.raised)
    ELSE Returned([state EXCEPT !.generated_code = response.value,
                                !.messages = Append(@, user_message(state)),
                                !.status = "validating"])

\* the parameters validate_code declares, and the keywords validate_code_node passes
validate_code_params == {"code", "dry_run", "progress_callback"}
validate_code_node_kwargs == {"dry_run", "session_id"}

\* a Python call: a keyword the callee does not declare raises TypeError before its body runs
Call_validate_code(code, dry_run, kwargs, run) ==
    IF kwargs \subseteq validate_code_params
    THEN validate_code(code, dry_run, run)
    ELSE [raised |-> "TypeError", value |-> NoneRec, calls |-> <<>>]

validate_code_node(state, run) ==
    LET call == Call_validate_code(state.generated_code, TRUE, validate_code_node_kwargs, run)
        validation_result == call.value
        iteration == CodeIteration(state.current_iteration + 1, state.generated_code,
                                   validation_result,
                                   IF validation_result.is_valid THEN "success" ELSE "refining")
    IN  IF call.raised # None
        THEN Raised(call.raised)
        ELSE Returned([state EXCEPT !.validation_result = validation_result,
                                    !.iterations_history = Append(@, iteration),
                                    !.current_iteration = @ + 1])

\* decide_next_step that gives up as soon as the state carries an error message
decide_next_step_reads_error_message(state) ==
    IF state.validation_result.is_valid THEN "complete"
    ELSE IF state.current_iteration >= state.max_iterations \/ state.error_message # None
    THEN "max_iterations"
    ELSE "refine"

\* decide_next_step testing the budget before the verdict
decide_next_step_budget_first(state) ==
    IF state.current_iteration >= state.max_iterations THEN "max_iterations"
    ELSE IF state.validation_result.is_valid THEN "complete"
    ELSE "refine"

decide_next_step(state) ==
    IF state.validation_result.is_valid THEN "complete"
    ELSE IF state.current_iteration >= state.max_iterations THEN "max_iterations"
    ELSE "refine"

complete_node(state) ==
    [state EXCEPT !.status = "success", !.error_message = None]

max_iterations_node(state) ==
    [state EXCEPT !.status = "max_iterations_reached",
                  !.error_message = "Maximum iterations reached. Code still has validation errors."]

\* refine_node that also clears the error message, as complete_node does
refine_node_clears_error_message(state) ==
    [state EXCEPT !.status = "refining", !.error_message = None]

refine_node(state) ==
    [state EXCEPT !.status = "refining"]

\* add_edge / set_entry_point of create_workflow
entry_point == "generate"
edges == [generate |-> "validate", refine |-> "generate", complete |-> "END",
          max_iterations |-> "END"]
\* add_conditional_edges("validate", decide_next_step, {...})
conditional_edges == [complete |-> "complete", refine |-> "refine",
                      max_iterations |-> "max_iterations"]


(***************************************************************************)
(* The progress channel of run_iterative_generation (mode "blocking"       *)
(* without progress_callback, "callback" with one) and of                  *)
(* run_iterative_generation_streaming (mode "streaming").  chan[id] keeps  *)
(*   pass      "astream": the graph is run with workflow.astream and each  *)
(*             event is reported; "ainvoke": it is run with                *)
(*             workflow.ainvoke; "done": the generator has finished        *)
(*   runs      how many times the graph was started for this submission    *)
(*   calls     how many times generate_code_node called the model          *)
(*   trace     the nodes that ran to their end, in order                   *)
(*   records   what was handed to the consumer, in order                   *)
(*   awaiting  the function is suspended at `await progress_callback(...)` *)
(*             or at a `yield`, until the consumer returns or asks again   *)
(*   consumer  "reading", or "gone" once it stopped reading for good       *)
(***************************************************************************)
NoChannel == [mode |-> "blocking", pass |-> "none", runs |-> 0, calls |-> 0, trace |-> <<>>,
              records |-> <<>>, awaiting |-> FALSE, consumer |-> "none"]

\* the first yield of run_iterative_generation_streaming
StartEvent(id) ==
    [session_id |-> id, event |-> "start", status |-> "generating", current_iteration |-> 0]

\* the function was called: the graph is about to be started for the first time
Channel(id, mode) ==
    [mode |-> mode, pass |-> IF mode = "blocking" THEN "ainvoke" ELSE "astream",
     runs |-> 1, calls |-> 0, trace |-> <<>>,
     records |-> IF mode = "streaming" THEN <<StartEvent(id)>> ELSE <<>>,
     awaiting |-> mode = "streaming",
     consumer |-> IF mode = "blocking" THEN "none" ELSE "reading"]

\* the keys of the dict each node returns: astream hands the consumer loop this update,
\* not the state of the graph
update_keys ==
    [generate |-> {"generated_code", "messages", "status", "generation_metrics"},
     validate |-> {"validation_result", "iterations_history", "current_iteration",
                   "validation_metrics"},
     refine |-> {"status"},
     complete |-> {"status", "error_message"},
     max_iterations |-> {"status", "error_message"}]

\* progress_data as both functions build it from node_state, the update of node node_name;
\* state is the state of the graph after the node, which has the update's values
progress_data(id, node_name, state) ==
    LET node_state == update_keys[node_name]
    IN  [session_id |-> id,
         event |-> "progress",
         node |-> node_name,
         status |-> IF "status" \in node_state THEN state.status ELSE "generating",
         current_iteration |-> IF "current_iteration" \in node_state
                               THEN state.current_iteration ELSE 0,
         generated_code |-> IF "generated_code" \in node_state
                            THEN state.generated_code ELSE NoneRec,
         validation_result |-> IF "validation_result" \in node_state
                               THEN state.validation_result ELSE NoneRec,
         iterations_history |-> IF "iterations_history" \in node_state
                                THEN state.iterations_history ELSE <<>>]

\* the last yield of run_iterative_generation_streaming
CompleteEvent(id, final_state) ==
    [session_id |-> id, event |-> "complete", status |-> final_state.status,
     current_iteration |-> final_state.current_iteration,
     generated_code |-> final_state.generated_code,
     validation_result |-> final_state.validation_result,
     iterations_history |-> final_state.iterations_history]

\* a consumer loop that reports the update of every node but validate
Emit_skips_validate(ch, id, node, out) ==
    LET called == IF node = "generate" /\ out.raised # "IndexError"
                  THEN [ch EXCEPT !.calls = @ + 1] ELSE ch
    IN  IF out.raised # None THEN called
        ELSE IF called.pass = "astream" /\ node # "validate"
        THEN [called EXCEPT !.trace = Append(@, node),
                            !.records = Append(@, progress_data(id, node, out.value)),
                            !.awaiting = TRUE]
        ELSE [called EXCEPT !.trace = Append(@, node)]

\* the channel after node ran with outcome out: under astream the event of a node that
\* returned is reported, and the function waits for the consumer
Emit(ch, id, node, out) ==
    LET called == IF node = "generate" /\ out.raised # "IndexError"
                  THEN [ch EXCEPT !.calls = @ + 1] ELSE ch
    IN  IF out.raised # None THEN called
        ELSE IF called.pass = "astream"
        THEN [called EXCEPT !.trace = Append(@, node),
                            !.records = Append(@, progress_data(id, node, out.value)),
                            !.awaiting = TRUE]
        ELSE [called EXCEPT !.trace = Append(@, node)]

(***************************************************************************)
(* A run of the compiled graph for session id: wf[id].pc is the node about *)
(* to run ("decide": the conditional edge after validate), "END" when the  *)
(* graph has finished, "raised" when a node raised and ainvoke propagated  *)
(* the exception to the caller of run_iterative_generation.  wf[id].env is *)
(* what the renderer did, or would have done, at the last validate step.   *)
(***************************************************************************)
IdleRun == [pc |-> "idle", state |-> NoneRec, raised |-> None, env |-> NoneRec]

\* workflow.ainvoke(initial_state)
run_iterative_generation(max_iterations) ==
    [pc |-> entry_point, state |-> initial_state(max_iterations), raised |-> None,
     env |-> NoneRec]

\* a graph that notes the exception of a node and goes on to the next node
AfterNode_keeps_running(run, node, out) ==
    [run EXCEPT !.pc = IF node = "validate" THEN "decide" ELSE edges[node],
                !.raised = out.raised]

AfterNode(run, node, out) ==
    IF out.raised # None
    THEN [run EXCEPT !.pc = "raised", !.raised = out.raised]
    ELSE [run EXCEPT !.pc = IF node = "validate" THEN "decide" ELSE edges[node],
                     !.state = out.value]

NodeGenerate(id) ==
    /\ wf[id].pc = "generate"
    /\ ~chan[id].awaiting
    /\ Len(wf[id].state.iterations_history) <= MaxRecords
    /\ \E response \in Responses :
          LET out == generate_code_node(wf[id].state, response)
          IN  /\ wf' = [wf EXCEPT ![id] = AfterNode(@, "generate", out)]
              /\ chan' = [chan EXCEPT ![id] = Emit(@, id, "generate", out)]
    /\ UNCHANGED <<ret, sub, resp, vcall, heap, sessions, req, manual>>

NodeValidate(id) ==
    /\ wf[id].pc = "validate"
    /\ ~chan[id].awaiting
    /\ \E run \in Runs :
          LET out == validate_code_node(wf[id].state, run)
          IN  /\ wf' = [wf EXCEPT ![id] = AfterNode([@ EXCEPT !.env = run], "validate", out)]
              /\ chan' = [chan EXCEPT ![id] = Emit(@, id, "validate", out)]
    /\ UNCHANGED <<ret, sub, resp, vcall, heap, sessions, req, manual>>

Decide(id) ==
    /\ wf[id].pc = "decide"
    /\ wf' = [wf EXCEPT ![id].pc = conditional_edges[decide_next_step(wf[id].state)]]
    /\ UNCHANGED <<ret, chan, sub, resp, vcall, heap, sessions, req, manual>>

NodeRefine(id) ==
    /\ wf[id].pc = "refine"
    /\ ~chan[id].awaiting
    /\ LET out == Returned(refine_node(wf[id].state))
       IN  /\ wf' = [wf EXCEPT ![id] = AfterNode(@, "refine", out)]
           /\ chan' = [chan EXCEPT ![id] = Emit(@, id, "refine", out)]
    /\ UNCHANGED <<ret, sub, resp, vcall, heap, sessions, req, manual>>

NodeComplete(id) ==
    /\ wf[id].pc = "complete"
    /\ ~chan[id].awaiting
    /\ LET out == Returned(complete_node(wf[id].state))
       IN  /\ wf' = [wf EXCEPT ![id] = AfterNode(@, "complete", out)]
           /\ chan' = [chan EXCEPT ![id] = Emit(@, id, "complete", out)]
    /\ UNCHANGED <<ret, sub, resp, vcall, heap, sessions, req, manual>>

NodeMaxIterations(id) ==
    /\ wf[id].pc = "max_iterations"
    /\ ~chan[id].awaiting
    /\ LET out == Returned(max_iterations_node(wf[id].state))
       IN  /\ wf' = [wf EXCEPT ![id] = AfterNode(@, "max_iterations", out)]
           /\ chan' = [chan EXCEPT ![id] = Emit(@, id, "max_iterations", out)]
    /\ UNCHANGED <<ret, sub, resp, vcall, heap, sessions, req, manual>>

\* run_iterative_generation with a progress_callback, after the astream loop:
\* final_state = await workflow.ainvoke(initial_state)
Reinvoke(id) ==
    /\ chan[id].mode = "callback" /\ chan[id].pass = "astream"
    /\ wf[id].pc = "END"
    /\ ~chan[id].awaiting
    /\ wf' = [wf EXCEPT ![id] = run_iterative_generation(wf[id].state.max_iterations)]
    /\ chan' = [chan EXCEPT ![id] = [@ EXCEPT !.pass = "ainvoke", !.runs = @ + 1]]
    /\ UNCHANGED <<ret, sub, resp, vcall, heap, sessions, req, manual>>

\* run_iterative_generation_streaming after the astream loop: the "complete" event
StreamComplete(id) ==
    /\ chan[id].mode = "streaming" /\ chan[id].pass = "astream"
    /\ wf[id].pc = "END"
    /\ ~chan[id].awaiting
    /\ chan' = [chan EXCEPT ![id] =
                   [@ EXCEPT !.pass = "done",
                             !.records = Append(@, CompleteEvent(id, wf[id].state)),
                             !.awaiting = TRUE]]
    /\ UNCHANGED <<ret, sub, resp, vcall, wf, heap, sessions, req, manual>>

\* the consumer: the callback returns, or the reader of the generator asks for the next item
ConsumerNext(id) ==
    /\ chan[id].awaiting /\ chan[id].consumer = "reading"
    /\ chan' = [chan EXCEPT ![id].awaiting = FALSE]
    /\ UNCHANGED <<ret, sub, resp, vcall, wf, heap, sessions, req, manual>>

\* the consumer disconnects, or stops reading for good
ConsumerStop(id) ==
    /\ chan[id].consumer = "reading"
    /\ chan' = [chan EXCEPT ![id].consumer = "gone"]
    /\ UNCHANGED <<ret, sub, resp, vcall, wf, heap, sessions, req, manual>>


(***************************************************************************)
(* The session store (SessionManager) and the SessionState objects.  A     *)
(* handler that fetched a session holds the object itself: it mutates      *)
(* heap[id] whether or not id is still a key of _sessions.                 *)
(***************************************************************************)
\* the fields models/session.py declares for SessionState
SessionState_fields ==
    {"session_id", "prompt", "model", "temperature", "max_tokens", "max_iterations",
     "current_iteration", "iterations", "status", "final_code", "rendered_video_path",
     "render_status", "render_progress", "render_started_at", "render_completed_at",
     "render_error", "created_at", "updated_at"}

\* SessionState(...) as create_session builds it
SessionState(max_iterations) ==
    [max_iterations |-> max_iterations, current_iteration |-> 0, iterations |-> <<>>,
     status |-> "generating", final_code |-> NoneRec, render_status |-> None,
     updated_at |-> 0]

Created(id) == heap[id] # NoneRec

\* str(uuid.uuid4()) that may hand out an id again
uuid4_reuses(h) == DOMAIN h

\* str(uuid.uuid4()): an id that was never handed out
uuid4(h) == {id \in DOMAIN h : h[id] = NoneRec}

\* SessionManager.update_session: session.updated_at = datetime.utcnow(), a later time than
\* the stamp the session carries (updated_at counts the stamps)
set_updated_at(session) == [session EXCEPT !.updated_at = @ + 1]

\* SessionManager.get_session: self._sessions.get(session_id)
get_session(keys, h, id) == IF id \in keys THEN h[id] ELSE NoneRec

\* GET /session/status/{session_id}
get_session_status(keys, h, id) ==
    IF get_session(keys, h, id) = NoneRec THEN "404" ELSE "200"

\* SessionManager.update_session: self._sessions[session.session_id] = session
update_session(keys, id) == keys \cup {id}

\* SessionManager.delete_session that answers without removing the entry
delete_session_keeps(keys, id) == keys

\* SessionManager.delete_session: the keys after the call (it returns whether id was a key)
delete_session(keys, id) == keys \ {id}

\* SessionManager.cleanup_old_sessions that also takes the sessions stamped at the cutoff
cleanup_old_sessions_inclusive(keys, h, cutoff_time) ==
    LET to_delete == {sid \in keys : h[sid].updated_at <= cutoff_time}
    IN  [keys |-> keys \ to_delete, returned |-> Cardinality(to_delete)]

\* SessionManager.cleanup_old_sessions: the keys after the call and len(to_delete);
\* cutoff_time is datetime.utcnow() - timedelta(hours=max_age_hours), on the scale of the stamps
cleanup_old_sessions(keys, h, cutoff_time) ==
    LET to_delete == {sid \in keys : h[sid].updated_at < cutoff_time}
    IN  [keys |-> keys \ to_delete, returned |-> Cardinality(to_delete)]

IdleReq == [mode |-> "none", pc |-> "idle", http |-> None]

(***************************************************************************)
(* POST /session/generate (start_iterative_generation)                     *)
(***************************************************************************)
StartBlocking(id, m) ==
    /\ id \in uuid4(heap)
    /\ heap' = [heap EXCEPT ![id] = SessionState(m)]
    /\ sessions' = sessions \cup {id}
    /\ wf' = [wf EXCEPT ![id] = run_iterative_generation(m)]
    /\ req' = [req EXCEPT ![id] = [mode |-> "blocking", pc |-> "running", http |-> None]]
    /\ chan' = [chan EXCEPT ![id] = Channel(id, "blocking")]
    /\ UNCHANGED <<ret, sub, resp, vcall, manual>>

\* a response that carries the script only of a successful run
IterativeGenerationResponse_final_code_only(workflow_state) ==
    [status |-> workflow_state.status,
     current_iteration |-> workflow_state.current_iteration,
     generated_code |-> IF workflow_state.status = "success"
                        THEN workflow_state.generated_code ELSE NoneRec,
     validation_result |-> workflow_state.validation_result,
     is_complete |-> workflow_state.status \in {"success", "max_iterations_reached"}]

\* the IterativeGenerationResponse start_iterative_generation builds from the final state
IterativeGenerationResponse(workflow_state) ==
    [status |-> workflow_state.status,
     current_iteration |-> workflow_state.current_iteration,
     generated_code |-> workflow_state.generated_code,
     validation_result |-> workflow_state.validation_result,
     is_complete |-> workflow_state.status \in {"success", "max_iterations_reached"}]

\* except Exception: raise HTTPException(status_code=500, ...)
BlockingRaise(id) ==
    /\ req[id].mode = "blocking" /\ req[id].pc = "running"
    /\ wf[id].pc = "raised"
    /\ req' = [req EXCEPT ![id] = [@ EXCEPT !.pc = "done", !.http = "500"]]
    /\ UNCHANGED <<ret, chan, sub, resp, vcall, wf, heap, sessions, manual>>

(***************************************************************************)
(* POST /session/generate-async and _generate_code_background              *)
(***************************************************************************)
StartAsync(id, m) ==
    /\ id \in uuid4(heap)
    /\ heap' = [heap EXCEPT ![id] = SessionState(m)]
    /\ sessions' = sessions \cup {id}
    /\ req' = [req EXCEPT ![id] = [mode |-> "background", pc |-> "queued", http |-> "200"]]
    /\ UNCHANGED <<ret, chan, sub, resp, vcall, wf, manual>>

\* SessionUpdater.update_generation_started
update_generation_started(session) ==
    [session EXCEPT !.status = "generating", !.current_iteration = 0]

\* SessionUpdater.update_generation_error: the session after the call, and what it raised
update_generation_error(session) ==
    IF "error_message" \in SessionState_fields
    THEN [raised |-> None, value |-> [session EXCEPT !.status = "failed"], saved |-> TRUE]
    ELSE \* pydantic refuses to set a field the model does not declare
         [raised |-> "ValueError", value |-> [session EXCEPT !.status = "failed"],
          saved |-> FALSE]

\* the task starts: SessionUpdater(session_id), update_generation_started, the workflow
BgStart(id) ==
    /\ req[id].mode = "background" /\ req[id].pc = "queued"
    /\ IF id \in sessions
       THEN /\ heap[id].updated_at < MaxStamps
            /\ heap' = [heap EXCEPT ![id] = set_updated_at(update_generation_started(@))]
            /\ sessions' = update_session(sessions, id)
            /\ wf' = [wf EXCEPT ![id] = run_iterative_generation(heap[id].max_iterations)]
            /\ req' = [req EXCEPT ![id].pc = "running"]
            /\ chan' = [chan EXCEPT ![id] = Channel(id, "blocking")]
       ELSE \* SessionUpdater.__init__ raises ValueError, in the try and again in the handler
            /\ req' = [req EXCEPT ![id].pc = "done"]
            /\ UNCHANGED <<heap, sessions, wf, chan>>
    /\ UNCHANGED <<ret, sub, resp, vcall, manual>>

\* except Exception as e: SessionUpdater(session_id).update_generation_error(str(e))
BgError(id) ==
    /\ req[id].mode = "background" /\ req[id].pc = "running"
    /\ wf[id].pc = "raised"
    /\ IF id \in sessions
       THEN /\ heap' = [heap EXCEPT ![id] = IF update_generation_error(@).saved
                                              THEN set_updated_at(update_generation_error(@).value)
                                              ELSE update_generation_error(@).value]
            /\ sessions' = IF update_generation_error(heap[id]).saved
                           THEN update_session(sessions, id) ELSE sessions
       ELSE UNCHANGED <<heap, sessions>>
    /\ req' = [req EXCEPT ![id].pc = "done"]
    /\ UNCHANGED <<ret, chan, sub, resp, vcall, wf, manual>>

(***************************************************************************)
(* POST /session/update-code (update_session_code_manually)                *)
(***************************************************************************)
NoManual == [pending |-> FALSE]

\* the code after `await validate_code(request.code, dry_run=True)` returned
manual_update(session, code, validation_result) ==
    LET is_valid == validation_result.is_valid
        manual_iteration == CodeIteration(session.current_iteration + 1, code, validation_result,
                                          IF is_valid THEN "success" ELSE "failed")
    IN  [session EXCEPT !.iterations = Append(@, manual_iteration),
                        !.current_iteration = @ + 1,
                        !.final_code = IF is_valid THEN code ELSE @,
                        !.status = IF is_valid THEN "success" ELSE "failed"]

\* the request arrives: 404 unless the session is stored; validate=false saves at once
ManualBegin(id, code, should_validate) ==
    /\ id \in sessions
    /\ ~manual[id].pending
    /\ IF should_validate
       THEN /\ Len(heap[id].iterations) < MaxRecords
            /\ manual' = [manual EXCEPT ![id] = [pending |-> TRUE, code |-> code]]
            /\ UNCHANGED <<heap, sessions>>
       ELSE /\ heap[id].updated_at < MaxStamps
            /\ heap' = [heap EXCEPT ![id] = set_updated_at([@ EXCEPT !.final_code = code])]
            /\ sessions' = update_session(sessions, id)
            /\ UNCHANGED manual
    /\ UNCHANGED <<ret, chan, sub, resp, vcall, wf, req>>

\* the validation returned (or was cancelled): the handler resumes
ManualFinish(id, run) ==
    /\ manual[id].pending
    /\ LET call == Call_validate_code(manual[id].code, TRUE, {"dry_run"}, run)
       IN  IF call.raised # None
           THEN UNCHANGED <<heap, sessions>>
           ELSE /\ heap[id].updated_at < MaxStamps
                /\ heap' = [heap EXCEPT ![id] =
                                set_updated_at(manual_update(@, manual[id].code, call.value))]
                /\ sessions' = update_session(sessions, id)
    /\ manual' = [manual EXCEPT ![id] = NoManual]
    /\ UNCHANGED <<ret, chan, sub, resp, vcall, wf, req>>

\* DELETE /session/{session_id}
DeleteSession(id) ==
    /\ sessions' = delete_session(sessions, id)
    /\ resp' = [resp EXCEPT ![id] = [op |-> "delete",
                                     http |-> IF id \in sessions THEN "200" ELSE "404"]]
    /\ UNCHANGED <<ret, chan, sub, vcall, wf, heap, req, manual>>

\* GET /session/status/{session_id}
GetStatus(id) ==
    /\ resp' = [resp EXCEPT ![id] = [op |-> "status",
                                     http |-> get_session_status(sessions, heap, id)]]
    /\ UNCHANGED <<ret, chan, sub, vcall, wf, heap, sessions, req, manual>>

(***************************************************************************)
(* POST /session/render (render_session_code)                              *)
(***************************************************************************)
\* the fields models/session.py declares for RenderRequest, and the attributes of the
\* request the route reads when it builds the arguments of the background task
RenderRequest_fields ==
    {"session_id", "format", "quality", "background_color", "include_subtitles",
     "subtitle_style", "subtitle_font_size", "model"}
render_task_arguments ==
    {"session_id", "format", "quality", "background_color", "include_subtitles", "model",
     "subtitle_style", "subtitle_font_size", "enable_audio", "audio_language",
     "audio_speaker_id", "audio_speed"}

\* the render states the route takes for a render in progress
RenderInProgress(session) ==
    session.render_status # None /\ session.render_status \notin {"completed", "failed"}

\* the session after "Initialize render status"
render_queued(session) == [session EXCEPT !.render_status = "queued"]

\* a route that queues a render whatever the render status is
render_session_code_no_conflict(keys, h, id) ==
    IF get_session(keys, h, id) = NoneRec
    THEN [http |-> "404", saved |-> FALSE, session |-> NoneRec, task_added |-> FALSE]
    ELSE IF h[id].final_code = NoneRec
    THEN [http |-> "400", saved |-> FALSE, session |-> h[id], task_added |-> FALSE]
    ELSE IF render_task_arguments \subseteq RenderRequest_fields
    THEN [http |-> "200", saved |-> TRUE, session |-> render_queued(h[id]),
          task_added |-> TRUE]
    ELSE [http |-> "500", saved |-> TRUE, session |-> render_queued(h[id]),
          task_added |-> FALSE]

\* render_session_code: the response, the session as the route leaves it, whether it called
\* update_session, and whether it added the background task
render_session_code(keys, h, id) ==
    IF get_session(keys, h, id) = NoneRec
    THEN [http |-> "404", saved |-> FALSE, session |-> NoneRec, task_added |-> FALSE]
    ELSE IF h[id].final_code = NoneRec
    THEN [http |-> "400", saved |-> FALSE, session |-> h[id], task_added |-> FALSE]
    ELSE IF RenderInProgress(h[id])
    THEN [http |-> "409", saved |-> FALSE, session |-> h[id], task_added |-> FALSE]
    ELSE IF render_task_arguments \subseteq RenderRequest_fields
    THEN [http |-> "200", saved |-> TRUE, session |-> render_queued(h[id]),
          task_added |-> TRUE]
    ELSE \* request.enable_audio: AttributeError after the session was saved as queued
         [http |-> "500", saved |-> TRUE, session |-> render_queued(h[id]),
          task_added |-> FALSE]

RenderSession(id) ==
    /\ LET out == render_session_code(sessions, heap, id)
       IN  /\ IF out.saved
              THEN /\ heap[id].updated_at < MaxStamps
                   /\ heap' = [heap EXCEPT ![id] = set_updated_at(out.session)]
                   /\ sessions' = update_session(sessions, id)
              ELSE UNCHANGED <<heap, sessions>>
           /\ resp' = [resp EXCEPT ![id] =
                          [op |-> "render", http |-> out.http, task_added |-> out.task_added,
                           at |-> IF id \in sessions THEN heap[id].updated_at ELSE 0]]
    /\ UNCHANGED <<ret, chan, sub, vcall, wf, req, manual>>

(***************************************************************************)
(* GET /session/{session_id}/sse (session_sse_stream): the stream polls    *)
(* the store.  resp[id] keeps the last event it sent, the updated_at it    *)
(* last reported, and whether the generator has returned.                  *)
(***************************************************************************)
\* SessionUpdater.get_current_state reads self.session.generated_code
get_current_state(session) ==
    IF "generated_code" \in SessionState_fields
    THEN Returned([status |-> session.status, current_iteration |-> session.current_iteration,
                   final_code |-> session.final_code, iterations |-> session.iterations,
                   render_status |-> session.render_status,
                   updated_at |-> session.updated_at])
    ELSE Raised("AttributeError")

\* the event type the loop picks from the two statuses
sse_event_type(session) ==
    IF session.render_status = "queued" THEN "render_queued"
    ELSE IF session.render_status = "preparing" THEN "render_started"
    ELSE IF session.render_status = "completed" THEN "render_complete"
    ELSE IF session.render_status = "failed" THEN "render_error"
    ELSE IF session.render_status # None THEN "render_progress"
    ELSE IF session.status \in {"success", "max_iterations_reached"} THEN "generation_complete"
    ELSE IF session.status = "failed" THEN "generation_error"
    ELSE "generation_progress"

\* the test before the "done" event
sse_done(session) ==
    LET terminal_generation ==
            session.status \in {"success", "max_iterations_reached", "failed"}
        terminal_render == session.render_status \in {"completed", "failed", None}
    IN  terminal_generation /\ terminal_render /\ session.render_status = "completed"

\* one turn of the `while True` loop: the stream after it
sse_poll(keys, h, id, stream) ==
    LET session == get_session(keys, h, id)
        current_state == get_current_state(session)
    IN  IF session = NoneRec
        THEN [stream EXCEPT !.last = "session_deleted", !.closed = TRUE]
        ELSE IF current_state.raised # None
        THEN \* except Exception as e: the "error" event, then the next turn
             [stream EXCEPT !.last = "error"]
        ELSE IF stream.seen = session.updated_at
        THEN stream
        ELSE IF sse_done(session)
        THEN [stream EXCEPT !.last = "done", !.seen = session.updated_at, !.closed = TRUE]
        ELSE [stream EXCEPT !.last = sse_event_type(session), !.seen = session.updated_at]

\* the request arrives: session_not_found, or the initial state and the loop
SseConnect(id) ==
    /\ resp[id].op # "sse"
    /\ resp' = [resp EXCEPT ![id] =
                   IF get_session(sessions, heap, id) = NoneRec
                   THEN [op |-> "sse", http |-> "200", last |-> "session_not_found",
                         seen |-> 0 - 1, closed |-> TRUE]
                   ELSE [op |-> "sse", http |-> "200",
                         last |-> IF get_current_state(heap[id]).raised = None
                                  THEN "session_connected" ELSE "none",
                         seen |-> 0 - 1, closed |-> FALSE]]
    /\ UNCHANGED <<ret, chan, sub, vcall, wf, heap, sessions, req, manual>>

SsePoll(id) ==
    /\ resp[id].op = "sse" /\ ~resp[id].closed
    /\ resp' = [resp EXCEPT ![id] = sse_poll(sessions, heap, id, @)]
    /\ UNCHANGED <<ret, chan, sub, vcall, wf, heap, sessions, req, manual>>

(***************************************************************************)
(* The end of a run that returned: the write-back of the blocking route    *)
(* and the replay of the background task.                                  *)
(***************************************************************************)
\* start_iterative_generation, "Update session with results"
write_back(session, workflow_state) ==
    [session EXCEPT !.current_iteration = workflow_state.current_iteration,
                    !.status = workflow_state.status,
                    !.iterations = workflow_state.iterations_history,
                    !.final_code = IF workflow_state.status = "success"
                                   THEN workflow_state.generated_code ELSE @]

\* the run returned its final state to start_iterative_generation
BlockingReturn(id) ==
    /\ req[id].mode = "blocking" /\ req[id].pc = "running"
    /\ wf[id].pc = "END"
    /\ heap[id].updated_at < MaxStamps
    /\ heap' = [heap EXCEPT ![id] = set_updated_at(write_back(@, wf[id].state))]
    /\ sessions' = update_session(sessions, id)
    /\ req' = [req EXCEPT ![id] = [@ EXCEPT !.pc = "done", !.http = "200"]]
    /\ UNCHANGED <<ret, chan, sub, resp, vcall, wf, manual>>

\* CodeIteration(generated_code=code or "")
EmptyCode == [syn |-> "ok", from_imp |-> FALSE, plain_imp |-> FALSE, cls |-> "none",
              con |-> "none", empty |-> TRUE]

\* SessionUpdater.update_generation_iteration on a stored session: the session after the
\* call, what it raised, and whether update_session was reached
update_generation_iteration(session, iteration, status, code, validation_result) ==
    LET s1 == [session EXCEPT !.current_iteration = iteration, !.status = status]
        iteration_record == CodeIteration(iteration, IF code = NoneRec THEN EmptyCode ELSE code,
                                          validation_result, status)
        existing == {i \in 1..Len(s1.iterations) : s1.iterations[i].iteration_number = iteration}
        existing_idx == CHOOSE i \in existing : \A j \in existing : i <= j
    IN  IF code # NoneRec /\ "generated_code" \notin SessionState_fields
        THEN \* self.session.generated_code = code
             [raised |-> "ValueError", value |-> s1, saved |-> FALSE]
        ELSE IF code # NoneRec \/ validation_result # NoneRec
        THEN [raised |-> None, saved |-> TRUE,
              value |-> IF existing # {}
                        THEN [s1 EXCEPT !.iterations[existing_idx] = iteration_record]
                        ELSE [s1 EXCEPT !.iterations = Append(@, iteration_record)]]
        ELSE [raised |-> None, value |-> s1, saved |-> TRUE]

\* SessionUpdater.update_generation_complete
update_generation_complete(session, final_code, status) ==
    [session EXCEPT !.status = status,
                    !.final_code = IF status = "success" THEN final_code ELSE NoneRec]

\* the run returned its final state to _generate_code_background: the iterations are
\* replayed through the updater, then the generation is marked complete; the first
\* exception ends the replay in the handler, which calls update_generation_error
BgFinish(id) ==
    /\ req[id].mode = "background" /\ req[id].pc = "running"
    /\ wf[id].pc = "END"
    /\ LET workflow_state == wf[id].state
           history == workflow_state.iterations_history
           first == update_generation_iteration(heap[id], history[1].iteration_number,
                                                history[1].status, history[1].generated_code,
                                                history[1].validation_result)
       IN  IF id \notin sessions
           THEN \* every updater method returns at `if not self.session`
                UNCHANGED <<heap, sessions>>
           ELSE IF history = <<>>
           THEN /\ heap[id].updated_at < MaxStamps
                /\ heap' = [heap EXCEPT ![id] = set_updated_at(
                               update_generation_complete(@, workflow_state.generated_code,
                                                          workflow_state.status))]
                /\ sessions' = update_session(sessions, id)
           ELSE IF first.raised # None
           THEN /\ heap' = [heap EXCEPT ![id] =
                               IF update_generation_error(first.value).saved
                               THEN set_updated_at(update_generation_error(first.value).value)
                               ELSE update_generation_error(first.value).value]
                /\ sessions' = IF update_generation_error(first.value).saved
                               THEN update_session(sessions, id) ELSE sessions
           ELSE \* not taken: a record of the history always carries a script
                UNCHANGED <<heap, sessions>>
    /\ req' = [req EXCEPT ![id].pc = "done"]
    /\ UNCHANGED <<ret, chan, sub, resp, vcall, wf, manual>>

\* session_manager.cleanup_old_sessions(max_age_hours): no route and no task of the service
\* calls it; it is exercised with the store (SpecStore)
CleanupOldSessions(cutoff_time) ==
    /\ sessions' = cleanup_old_sessions(sessions, heap, cutoff_time).keys
    /\ ret' = [op |-> "cleanup", cutoff_time |-> cutoff_time,
               returned |-> cleanup_old_sessions(sessions, heap, cutoff_time).returned]
    /\ UNCHANGED <<chan, sub, resp, vcall, wf, heap, req, manual>>

(***************************************************************************)
(* The service.  The conditional edge behind the validate node and the     *)
(* refine, complete and max_iterations nodes are not listed: every call of *)
(* validate_code_node raises (validate_code declares no session_id), so    *)
(* the graph never gets past validate.  The status request, which changes  *)
(* nothing in the store, is exercised with the store (SpecStore).          *)
(***************************************************************************)
NoCall == [made |-> FALSE]
IdleSub == [fn |-> "none", pc |-> "idle", run |-> NoneRec, temp_dir |-> "none",
            process |-> "none", result |-> NoneRec, raising |-> None]
NoResponse == [op |-> "none", http |-> None]
NoReturn == [op |-> "none"]

Init ==
    /\ vcall = NoCall
    /\ wf = [id \in Ids |-> IdleRun]
    /\ heap = [id \in Ids |-> NoneRec]
    /\ sessions = {}
    /\ req = [id \in Ids |-> IdleReq]
    /\ manual = [id \in Ids |-> NoManual]
    /\ sub = IdleSub
    /\ resp = [id \in Ids |-> NoResponse]
    /\ ret = NoReturn
    /\ chan = [id \in Ids |-> NoChannel]

Next ==
    \E id \in Ids :
        \/ \E m \in BudgetValues : StartBlocking(id, m)
        \/ \E m \in BudgetValues : StartAsync(id, m)
        \/ NodeGenerate(id)
        \/ NodeValidate(id)
        \/ BlockingRaise(id)
        \/ BgStart(id)
        \/ BgError(id)
        \/ \E code \in Scripts, v \in BOOLEAN : ManualBegin(id, code, v)
        \/ \E run \in Runs : ManualFinish(id, run)
        \/ DeleteSession(id)

Spec == Init /\ [][Next]_vars


(***************************************************************************)
(* The session store on its own, with two session ids: sessions are        *)
(* created by the two generate routes, read, given final code by           *)
(* update-code without validation, and deleted.                            *)
(***************************************************************************)
StoreIds == {"s1", "s2"}

InitStore ==
    /\ vcall = NoCall
    /\ wf = [id \in StoreIds |-> IdleRun]
    /\ heap = [id \in StoreIds |-> NoneRec]
    /\ sessions = {}
    /\ req = [id \in StoreIds |-> IdleReq]
    /\ manual = [id \in StoreIds |-> NoManual]
    /\ sub = IdleSub
    /\ resp = [id \in StoreIds |-> NoResponse]
    /\ ret = NoReturn
    /\ chan = [id \in StoreIds |-> NoChannel]

NextStore ==
    \E id \in StoreIds :
        \/ \E m \in BudgetValues : StartBlocking(id, m)
        \/ \E m \in BudgetValues : StartAsync(id, m)
        \/ \E code \in Scripts : ManualBegin(id, code, FALSE)
        \/ DeleteSession(id)
        \/ GetStatus(id)

SpecStore == InitStore /\ [][NextStore]_vars

(***************************************************************************)
(* The render route on one session: the session is created, given final    *)
(* code by update-code (validated or not), asked to render, and deleted.   *)
(***************************************************************************)
NextRender ==
    \E id \in Ids :
        \/ \E m \in BudgetValues : StartAsync(id, m)
        \/ \E code \in Scripts, v \in BOOLEAN : ManualBegin(id, code, v)
        \/ \E run \in Runs : ManualFinish(id, run)
        \/ RenderSession(id)
        \/ DeleteSession(id)

SpecRender == Init /\ [][NextRender]_vars

(***************************************************************************)
(* The polling stream beside a background generation on one session, with  *)
(* update-code requests and the deletion of the session.                   *)
(***************************************************************************)
NextSse ==
    \E id \in Ids :
        \/ \E m \in BudgetValues : StartAsync(id, m)
        \/ BgStart(id)
        \/ NodeGenerate(id)
        \/ NodeValidate(id)
        \/ BgError(id)
        \/ \E code \in Scripts, v \in BOOLEAN : ManualBegin(id, code, v)
        \/ \E run \in Runs : ManualFinish(id, run)
        \/ SseConnect(id)
        \/ SsePoll(id)
        \/ DeleteSession(id)

SpecSse == Init /\ [][NextSse]_vars

(***************************************************************************)
(* The clean-up by age, with the same two session ids: sessions are        *)
(* created, stamped by update-code without validation, and removed by      *)
(* cleanup_old_sessions under any cutoff.                                  *)
(***************************************************************************)
CutoffTimes == 0..(MaxStamps + 1)

NextCleanup ==
    \/ \E id \in StoreIds, m \in BudgetValues : StartBlocking(id, m)
    \/ \E id \in StoreIds, m \in BudgetValues : StartAsync(id, m)
    \/ \E id \in StoreIds : ManualBegin(id, ValidScript, FALSE)
    \/ \E cutoff_time \in CutoffTimes : CleanupOldSessions(cutoff_time)

SpecCleanup == InitStore /\ [][NextCleanup]_vars


(***************************************************************************)
(* The validator called on its own: any script, either value of the        *)
(* dry-run flag, any behaviour of the renderer.                            *)
(***************************************************************************)
InitValidate ==
    /\ vcall \in {[made |-> FALSE, code |-> c, dry_run |-> d, run |-> r] :
                    c \in AllScripts, d \in BOOLEAN, r \in DryRuns}
    /\ wf = [id \in Ids |-> IdleRun]
    /\ heap = [id \in Ids |-> NoneRec]
    /\ sessions = {}
    /\ req = [id \in Ids |-> IdleReq]
    /\ manual = [id \in Ids |-> NoManual]
    /\ sub = IdleSub
    /\ resp = [id \in Ids |-> NoResponse]
    /\ ret = NoReturn
    /\ chan = [id \in Ids |-> NoChannel]

CallValidate ==
    /\ ~vcall.made
    /\ vcall' = [made |-> TRUE, code |-> vcall.code, dry_run |-> vcall.dry_run,
                 run |-> vcall.run,
                 out |-> validate_code(vcall.code, vcall.dry_run, vcall.run)]
    /\ UNCHANGED <<ret, chan, sub, resp, wf, heap, sessions, req, manual>>

NextValidate == CallValidate

SpecValidate == InitValidate /\ [][NextValidate]_vars

(***************************************************************************)
(* The two functions that run the renderer as a subprocess, step by step:  *)
(* validate_manim_dry_run (code_validator.py) and render_manim_video       *)
(* (video_rendering.py).  sub.run is what the subprocess does while its    *)
(* output is read; sub.temp_dir and sub.process are the scratch directory  *)
(* and the subprocess as the operating system has them:                    *)
(*   temp_dir  "none" (not created), "exists", "removed"                   *)
(*   process   "none" (not spawned), "running", "terminating" (terminate() *)
(*             was sent, not exited), "killed" (kill() was sent, not yet   *)
(*             waited for), "exited"                                       *)
(* sub.raising is the exception on its way to the caller, if any.  A       *)
(* cancellation of the task is delivered at the await it is suspended in.  *)
(***************************************************************************)
SubprocessFunctions == {"validate_manim_dry_run", "render_manim_video"}

\* the call: render_manim_video makes its directory before the try, the dry run inside it
SubCall(fn, run) ==
    /\ sub.pc = "idle"
    /\ sub' = [IdleSub EXCEPT !.fn = fn, !.pc = "try", !.run = run,
                              !.temp_dir = IF fn = "render_manim_video" THEN "exists" ELSE "none",
                              !.result = IF fn = "validate_manim_dry_run"
                                         THEN ValidationResult ELSE NoneRec]
    /\ UNCHANGED <<vcall, wf, heap, sessions, req, manual, resp, ret, chan>>

\* tempfile.mkdtemp, the files, asyncio.create_subprocess_exec
SubSpawn(spawned) ==
    /\ sub.pc = "try"
    /\ IF sub.run.kind = "exception" /\ ~spawned
       THEN sub' = [sub EXCEPT !.temp_dir = "exists", !.pc = "except", !.raising = "Exception"]
       ELSE sub' = [sub EXCEPT !.temp_dir = "exists", !.process = "running", !.pc = "reading"]
    /\ UNCHANGED <<vcall, wf, heap, sessions, req, manual, resp, ret, chan>>

\* wait_for(gather(read_stream, read_stream), timeout), process.wait(), the return code
SubRead ==
    /\ sub.pc = "reading"
    /\ LET dry == sub.fn = "validate_manim_dry_run"
           k == sub.run.kind
       IN  sub' =
             CASE k \in {"exit0", "nonzero"} ->
                    IF dry
                    THEN [sub EXCEPT !.process = "exited", !.pc = "finally",
                                     !.result = validate_manim_dry_run(NoneRec, sub.run).value]
                    ELSE IF k = "exit0"
                    THEN [sub EXCEPT !.process = "exited", !.pc = "finally",
                                     !.result = [video_path |-> "output", temp_dir |-> "temp_dir"]]
                    ELSE [sub EXCEPT !.process = "exited", !.pc = "except",
                                     !.raising = "Exception"]
               [] k = "timeout" ->
                    IF dry
                    THEN [sub EXCEPT !.pc = "finally",
                                     !.result = validate_manim_dry_run(NoneRec, sub.run).value]
                    ELSE [sub EXCEPT !.pc = "except", !.raising = "Exception"]
               [] k = "cancelled" ->
                    \* except asyncio.CancelledError: ... raise
                    [sub EXCEPT !.pc = "finally", !.raising = "CancelledError"]
               [] OTHER ->
                    [sub EXCEPT !.pc = "except", !.raising = "Exception"]
    /\ UNCHANGED <<vcall, wf, heap, sessions, req, manual, resp, ret, chan>>

\* except Exception as e: the dry run records the error; the render removes its directory
\* and raises again
SubExcept ==
    /\ sub.pc = "except"
    /\ IF sub.fn = "validate_manim_dry_run"
       THEN sub' = [sub EXCEPT !.pc = "finally", !.raising = None,
                               !.result = validate_manim_dry_run(
                                              NoneRec, [kind |-> "exception", stderr |-> <<>>]).value]
       ELSE sub' = [sub EXCEPT !.pc = "finally", !.temp_dir = "removed"]
    /\ UNCHANGED <<vcall, wf, heap, sessions, req, manual, resp, ret, chan>>

\* finally: if process and process.returncode is None: process.terminate()
SubFinally ==
    /\ sub.pc = "finally"
    /\ IF sub.process = "running"
       THEN sub' = [sub EXCEPT !.process = "terminating", !.pc = "grace"]
       ELSE sub' = [sub EXCEPT !.pc = "cleaned"]
    /\ UNCHANGED <<vcall, wf, heap, sessions, req, manual, resp, ret, chan>>

\* await asyncio.wait_for(process.wait(), timeout=5.0)
SubGrace(outcome) ==
    /\ sub.pc = "grace"
    /\ sub' = CASE outcome = "exited" -> [sub EXCEPT !.process = "exited", !.pc = "cleaned"]
                [] outcome = "timeout" -> [sub EXCEPT !.process = "killed", !.pc = "kill_wait"]
                [] OTHER -> \* CancelledError is no Exception: it leaves the finally block
                            [sub EXCEPT !.raising = "CancelledError", !.pc = "done"]
    /\ UNCHANGED <<vcall, wf, heap, sessions, req, manual, resp, ret, chan>>

\* process.kill(); await process.wait()
SubKillWait(outcome) ==
    /\ sub.pc = "kill_wait"
    /\ sub' = CASE outcome = "exited" -> [sub EXCEPT !.process = "exited", !.pc = "cleaned"]
                [] OTHER -> [sub EXCEPT !.raising = "CancelledError", !.pc = "done"]
    /\ UNCHANGED <<vcall, wf, heap, sessions, req, manual, resp, ret, chan>>

\* the end of the finally block: the dry run removes its directory, the render has no such line
SubCleaned ==
    /\ sub.pc = "cleaned"
    /\ IF sub.fn = "validate_manim_dry_run"
       THEN sub' = [sub EXCEPT !.temp_dir = "removed", !.pc = "done"]
       ELSE sub' = [sub EXCEPT !.pc = "done"]
    /\ UNCHANGED <<vcall, wf, heap, sessions, req, manual, resp, ret, chan>>

\* _render_video_background after render_manim_video: its own temp_dir is still None when the
\* call raised, and `except Exception` does not see a CancelledError
RenderBackgroundDone ==
    /\ sub.fn = "render_manim_video" /\ sub.pc = "done"
    /\ sub' = [sub EXCEPT !.pc = "task_done"]
    /\ UNCHANGED <<vcall, wf, heap, sessions, req, manual, resp, ret, chan>>

InitSubprocess ==
    /\ vcall = NoCall
    /\ wf = [id \in Ids |-> IdleRun]
    /\ heap = [id \in Ids |-> NoneRec]
    /\ sessions = {}
    /\ req = [id \in Ids |-> IdleReq]
    /\ manual = [id \in Ids |-> NoManual]
    /\ sub = IdleSub
    /\ resp = [id \in Ids |-> NoResponse]
    /\ ret = NoReturn
    /\ chan = [id \in Ids |-> NoChannel]

NextSubprocess ==
    \/ \E fn \in SubprocessFunctions, run \in DryRuns : SubCall(fn, run)
    \/ \E spawned \in BOOLEAN : SubSpawn(spawned)
    \/ SubRead
    \/ SubExcept
    \/ SubFinally
    \/ \E outcome \in {"exited", "timeout", "cancelled"} : SubGrace(outcome)
    \/ \E outcome \in {"exited", "cancelled"} : SubKillWait(outcome)
    \/ SubCleaned
    \/ RenderBackgroundDone

SpecSubprocess == InitSubprocess /\ [][NextSubprocess]_vars


(***************************************************************************)
(* The router and the nodes behind it, applied to any WorkflowState a      *)
(* caller may hand them: a verdict for the current script, any counter,    *)
(* any budget.                                                             *)
(***************************************************************************)
RouterHistory(n, code, verdict) ==
    [i \in 1..n |->
        IF i < n
        THEN CodeIteration(i, NoClassScript, validate_code(NoClassScript, TRUE, RunOk).value,
                           "refining")
        ELSE CodeIteration(n, code, verdict, IF verdict.is_valid THEN "success" ELSE "refining")]

RouterInputs ==
    {[max_iterations |-> m, current_iteration |-> n, messages |-> <<>>,
      generated_code |-> c, validation_result |-> validate_code(c, TRUE, r).value,
      iterations_history |-> RouterHistory(n, c, validate_code(c, TRUE, r).value),
      status |-> "validating", error_message |-> e] :
        m \in BudgetValues, n \in 0..MaxRecords, c \in Scripts, r \in {RunOk, RunFails},
        e \in {None, "stale"}}

InitGraph ==
    /\ vcall = NoCall
    /\ wf \in {[id \in Ids |-> [pc |-> "decide", state |-> s, raised |-> None, env |-> NoneRec]] :
                 s \in RouterInputs}
    /\ heap = [id \in Ids |-> NoneRec]
    /\ sessions = {}
    /\ req = [id \in Ids |-> IdleReq]
    /\ manual = [id \in Ids |-> NoManual]
    /\ sub = IdleSub
    /\ resp = [id \in Ids |-> NoResponse]
    /\ ret = NoReturn
    /\ chan = [id \in Ids |-> NoChannel]

NextGraph ==
    \E id \in Ids :
        \/ Decide(id)
        \/ NodeRefine(id)
        \/ NodeComplete(id)
        \/ NodeMaxIterations(id)
        \/ NodeGenerate(id)
        \/ NodeValidate(id)

SpecGraph == InitGraph /\ [][NextGraph]_vars

(***************************************************************************)
(* The generate node on its own: at the start of a run, and after the      *)
(* refine node, with a history of one up to MaxRecords rejected scripts.   *)
(***************************************************************************)
GenerateInputs ==
    {initial_state(m) : m \in BudgetValues}
        \cup {refine_node(r) : r \in {s \in RouterInputs : /\ s.current_iteration >= 1
                                                           /\ ~s.validation_result.is_valid}}

InitGenerate ==
    /\ vcall = NoCall
    /\ wf \in {[id \in Ids |-> [pc |-> "generate", state |-> s, raised |-> None,
                                env |-> NoneRec]] : s \in GenerateInputs}
    /\ heap = [id \in Ids |-> NoneRec]
    /\ sessions = {}
    /\ req = [id \in Ids |-> IdleReq]
    /\ manual = [id \in Ids |-> NoManual]
    /\ sub = IdleSub
    /\ resp = [id \in Ids |-> NoResponse]
    /\ ret = NoReturn
    /\ chan = [id \in Ids |-> Channel(id, "blocking")]

NextGenerate ==
    \E id \in Ids :
        \/ NodeGenerate(id)
        \/ NodeValidate(id)

SpecGenerate == InitGenerate /\ [][NextGenerate]_vars

(***************************************************************************)
(* The two functions that run the loop, called on their own in each mode:  *)
(* from the start, and from the state a first Validate step leaves when it *)
(* returns (with what was reported up to there).                           *)
(***************************************************************************)
ProgressBudgets == 1..(MaxBudget + 1)
Modes == {"blocking", "callback", "streaming"}

\* the state of the graph after a first Generate step that returned code and a first
\* Validate step that returned the verdict of validate_code(code, dry_run=True)
PastValidate(m, code, run) ==
    LET generated == generate_code_node(initial_state(m), Returned(code)).value
        validation_result == validate_code(code, TRUE, run).value
    IN  [generated EXCEPT
             !.validation_result = validation_result,
             !.iterations_history =
                 <<CodeIteration(1, code, validation_result,
                                 IF validation_result.is_valid THEN "success" ELSE "refining")>>,
             !.current_iteration = 1]

\* the channel after these two steps, the consumer having taken every item but the last
PastValidateChannel(id, mode, m, code, run) ==
    LET generated == generate_code_node(initial_state(m), Returned(code))
        ch1 == Emit([Channel(id, mode) EXCEPT !.awaiting = FALSE], id, "generate", generated)
    IN  Emit([ch1 EXCEPT !.awaiting = FALSE], id, "validate",
             Returned(PastValidate(m, code, run)))

InitProgress ==
    /\ vcall = NoCall
    /\ \E m \in ProgressBudgets, mode \in Modes :
          \/ /\ wf = [id \in Ids |-> run_iterative_generation(m)]
             /\ chan = [id \in Ids |-> Channel(id, mode)]
          \/ \E code \in Scripts, run \in {RunOk, RunFails} :
                /\ wf = [id \in Ids |-> [pc |-> "decide", state |-> PastValidate(m, code, run),
                                         raised |-> None, env |-> run]]
                /\ chan = [id \in Ids |-> PastValidateChannel(id, mode, m, code, run)]
    /\ heap = [id \in Ids |-> NoneRec]
    /\ sessions = {}
    /\ req = [id \in Ids |-> IdleReq]
    /\ manual = [id \in Ids |-> NoManual]
    /\ sub = IdleSub
    /\ resp = [id \in Ids |-> NoResponse]
    /\ ret = NoReturn

NextProgress ==
    \E id \in Ids :
        \/ NodeGenerate(id)
        \/ NodeValidate(id)
        \/ Decide(id)
        \/ NodeRefine(id)
        \/ NodeComplete(id)
        \/ NodeMaxIterations(id)
        \/ Reinvoke(id)
        \/ StreamComplete(id)
        \/ ConsumerNext(id)
        \/ ConsumerStop(id)

SpecProgress == InitProgress /\ [][NextProgress]_vars

(***************************************************************************)
(* A session whose run is past a Validate step that returned: the session  *)
(* is stored, its request (blocking or background) is waiting for the run, *)
(* and update-code requests arrive meanwhile.                              *)
(***************************************************************************)
InitSession ==
    /\ vcall = NoCall
    /\ \E m \in ProgressBudgets, code \in Scripts, run \in {RunOk, RunFails},
          mode \in {"blocking", "background"} :
          /\ wf = [id \in Ids |-> [pc |-> "decide", state |-> PastValidate(m, code, run),
                                   raised |-> None, env |-> run]]
          /\ chan = [id \in Ids |-> PastValidateChannel(id, "blocking", m, code, run)]
          /\ heap = [id \in Ids |->
                        IF mode = "blocking" THEN SessionState(m)
                        ELSE set_updated_at(update_generation_started(SessionState(m)))]
          /\ req = [id \in Ids |->
                       [mode |-> mode, pc |-> "running",
                        http |-> IF mode = "blocking" THEN None ELSE "200"]]
    /\ sessions = Ids
    /\ manual = [id \in Ids |-> NoManual]
    /\ sub = IdleSub
    /\ resp = [id \in Ids |-> NoResponse]
    /\ ret = NoReturn

NextSession ==
    \E id \in Ids :
        \/ Decide(id)
        \/ NodeRefine(id)
        \/ NodeComplete(id)
        \/ NodeMaxIterations(id)
        \/ NodeGenerate(id)
        \/ NodeValidate(id)
        \/ BlockingReturn(id)
        \/ BlockingRaise(id)
        \/ BgFinish(id)
        \/ BgError(id)
        \/ \E code \in Scripts, v \in BOOLEAN : ManualBegin(id, code, v)
        \/ \E run \in Runs : ManualFinish(id, run)

SpecSession == InitSession /\ [][NextSession]_vars


(***************************************************************************)
(* Helpers of the properties.                                              *)
(***************************************************************************)
Max(a, b) == IF a >= b THEN a ELSE b

\* failures of the collaborators: the generation call raised, the dry run was cancelled
CollaboratorFailures == {"APIError", "CancelledError"}

\* the run of id has stopped: the graph reached END, or a node raised
Stopped(r) == r.pc \in {"END", "raised"}

\* the script the run is holding does not pass validation with what the renderer did
CurrentInvalid(r) ==
    /\ r.env # NoneRec
    /\ validate_code(r.state.generated_code, TRUE, r.env).raised = None
    /\ ~validate_code(r.state.generated_code, TRUE, r.env).value.is_valid

\* every script generated in the run was invalid
AllInvalid(r) ==
    /\ \A i \in 1..Len(r.state.iterations_history) :
          ~r.state.iterations_history[i].validation_result.is_valid
    /\ r.state.iterations_history = <<>> => CurrentInvalid(r)

\* the first script generated in the run was valid
FirstValid(r) ==
    IF r.state.iterations_history # <<>>
    THEN r.state.iterations_history[1].validation_result.is_valid
    ELSE /\ r.env # NoneRec
         /\ validate_code(r.state.generated_code, TRUE, r.env).raised = None
         /\ validate_code(r.state.generated_code, TRUE, r.env).value.is_valid

(***************************************************************************)
(* C1.  In every reachable state the number of Iteration records of a      *)
(* session is at most its max_iterations.                                  *)
(***************************************************************************)
C1_RecordsWithinBudget ==
    \A id \in Ids :
        Created(id) => Len(heap[id].iterations) <= heap[id].max_iterations

(***************************************************************************)
(* C3.  In every session's Iteration list the first record has number 1    *)
(* and iteration_number is strictly increasing along the list.             *)
(***************************************************************************)
C3_NumbersStrictlyIncreasing ==
    \A id \in Ids :
        Created(id) =>
            \A i \in 1..Len(heap[id].iterations) :
                IF i = 1
                THEN heap[id].iterations[i].iteration_number = 1
                ELSE heap[id].iterations[i].iteration_number >
                        heap[id].iterations[i - 1].iteration_number

(***************************************************************************)
(* C4.  The router checks the verdict before the budget: from a valid      *)
(* verdict it goes to complete, whatever the counter; it goes to           *)
(* max_iterations exactly when the verdict is invalid and the counter has  *)
(* reached max_iterations, and to refine exactly when the verdict is       *)
(* invalid and the counter is below max_iterations.  The complete node     *)
(* then ends the graph with Status success.                                *)
(***************************************************************************)
C4_ValidityBeforeBudget ==
    [][\A id \in Ids :
        /\ (wf[id].pc = "decide" /\ wf'[id].pc # "decide") =>
              LET s == wf[id].state
                  valid == s.validation_result.is_valid
              IN  /\ valid => wf'[id].pc = "complete"
                  /\ wf'[id].pc = "max_iterations" <=>
                        (~valid /\ s.current_iteration >= s.max_iterations)
                  /\ wf'[id].pc = "refine" <=>
                        (~valid /\ s.current_iteration < s.max_iterations)
        /\ (wf[id].pc = "complete" /\ wf'[id].pc # "complete") =>
              (wf'[id].pc = "END" /\ wf'[id].state.status = "success")
      ]_vars

\* a run that ended with success on the last allowed attempt
C4_Witness ==
    \E id \in Ids :
        /\ wf[id].pc = "END"
        /\ wf[id].state.status = "success"
        /\ wf[id].state.current_iteration >= 1
        /\ wf[id].state.current_iteration = wf[id].state.max_iterations

(***************************************************************************)
(* C5.  A run with max_iterations = N >= 1 in which every generated script *)
(* is invalid ends with Status max_iterations_reached and exactly N        *)
(* Iteration records, all but the last with Status refining.               *)
(***************************************************************************)
C5_AllInvalidExhausts ==
    \A id \in Ids :
        (/\ Stopped(wf[id])
         /\ wf[id].raised \notin CollaboratorFailures
         /\ wf[id].state.max_iterations >= 1
         /\ AllInvalid(wf[id]))
        => LET s == wf[id].state
           IN  /\ s.status = "max_iterations_reached"
               /\ Len(s.iterations_history) = s.max_iterations
               /\ \A i \in 1..(Len(s.iterations_history) - 1) :
                     s.iterations_history[i].status = "refining"

(***************************************************************************)
(* C6.  A run whose first generated script is valid performs exactly one   *)
(* Generate and one Validate step and ends with Status success, and the    *)
(* final_code written to the store is that script.                         *)
(***************************************************************************)
C6_FirstValidSucceeds ==
    \A id \in Ids :
        (/\ Stopped(wf[id])
         /\ wf[id].raised \notin CollaboratorFailures
         /\ FirstValid(wf[id]))
        => LET s == wf[id].state
           IN  /\ s.status = "success"
               /\ Len(s.messages) = 1
               /\ Len(s.iterations_history) = 1
               /\ (req[id].pc = "done" /\ heap[id].iterations = <<>>)
                     => heap[id].final_code = s.generated_code

(***************************************************************************)
(* C7.  Unless a generation call or a validation fails to return, a run    *)
(* stops only in a terminal state of the graph (complete or                *)
(* max_iterations, then END), after at most max(1, max_iterations)         *)
(* Validate steps.                                                         *)
(***************************************************************************)
C7_StopsOnlyAtTerminal ==
    \A id \in Ids :
        /\ wf[id].pc = "raised" => wf[id].raised \in CollaboratorFailures
        /\ wf[id].pc # "idle" =>
              Len(wf[id].state.iterations_history) <= Max(1, wf[id].state.max_iterations)
        /\ wf[id].pc = "END" => wf[id].state.status \in {"success", "max_iterations_reached"}

(***************************************************************************)
(* C8.  Every Validate step calls the validator with dry-run enabled, then *)
(* appends exactly one Iteration record (number = counter + 1, the         *)
(* generated script, the validator's verdict, Status success if valid and  *)
(* refining otherwise) and increments the counter by 1.                    *)
(***************************************************************************)
C8_ValidateAppendsOneRecord ==
    [][\A id \in Ids :
        (wf[id].pc = "validate" /\ wf'[id] # wf[id]) =>
            LET s == wf[id].state
                verdict == validate_code(s.generated_code, TRUE, wf'[id].env)
            IN  \/ verdict.raised # None
                \/ /\ wf'[id].state.current_iteration = s.current_iteration + 1
                   /\ wf'[id].state.iterations_history =
                         Append(s.iterations_history,
                                CodeIteration(s.current_iteration + 1, s.generated_code,
                                              verdict.value,
                                              IF verdict.value.is_valid
                                              THEN "success" ELSE "refining"))
      ]_vars

(***************************************************************************)
(* C9.  Every verdict validate_code returns with is_valid = true has an    *)
(* empty errors list, for every script and both values of the dry-run flag.*)
(***************************************************************************)
C9_ValidHasNoErrors ==
    (vcall.made /\ vcall.out.raised = None /\ vcall.out.value.is_valid)
        => vcall.out.value.errors = <<>>

\* a valid verdict with a warning, from a dry run whose stderr holds a marker line
C9_Witness ==
    /\ vcall.made
    /\ vcall.out.raised = None
    /\ vcall.out.value.is_valid
    /\ vcall.out.value.warnings # <<>>
    /\ vcall.dry_run
    /\ vcall.run.stderr = <<"raise Exception">>

(***************************************************************************)
(* C10.  When the syntax stage fails, validate_code returns is_valid =     *)
(* false with exactly one error, which carries the line number and the     *)
(* message, and runs neither the import check, the structure stage nor the *)
(* dry run.                                                                *)
(***************************************************************************)
CarriesLineNumber(error) == error = "Syntax Error at line {e.lineno}: {e.msg}"

C10_SyntaxFailureSingleErrorWithLine ==
    (vcall.made /\ vcall.code.syn # "ok")
        => /\ vcall.out.raised = None
           /\ ~vcall.out.value.is_valid
           /\ Len(vcall.out.value.errors) = 1
           /\ CarriesLineNumber(vcall.out.value.errors[1])
           /\ vcall.out.calls = <<"validate_python_syntax">>

(***************************************************************************)
(* C10, amended.  When the syntax stage fails, validate_code returns       *)
(* is_valid = false with exactly one error and runs no later stage; the    *)
(* error carries the line number and the message when the parser raised a  *)
(* SyntaxError that has a line number, and only the message otherwise.     *)
(***************************************************************************)
C10_SyntaxFailureSingleError ==
    (vcall.made /\ vcall.code.syn # "ok")
        => /\ vcall.out.raised = None
           /\ ~vcall.out.value.is_valid
           /\ Len(vcall.out.value.errors) = 1
           /\ vcall.code.syn = "SyntaxError" => CarriesLineNumber(vcall.out.value.errors[1])
           /\ vcall.code.syn # "SyntaxError" =>
                 vcall.out.value.errors[1] \in {"Syntax Error at line None: {e.msg}",
                                                "Parse Error: {str(e)}"}
           /\ vcall.out.value.warnings = <<>>
           /\ vcall.out.calls = <<"validate_python_syntax">>

\* a script that fails to parse and would also fail the later checks, dry run requested
C10_Witness ==
    /\ vcall.made
    /\ vcall.code.syn = "SyntaxError"
    /\ vcall.code.cls = "none"
    /\ ~vcall.code.from_imp /\ ~vcall.code.plain_imp
    /\ vcall.dry_run
    /\ vcall.run.kind = "nonzero"
    /\ Len(vcall.out.value.errors) = 1

(***************************************************************************)
(* Helpers of the validator properties: what the text of the script says,  *)
(* read off the script and not off the stage functions.                    *)
(***************************************************************************)
SyntaxPasses(code) == code.syn = "ok"
HasBothTexts(code) == code.cls # "none" /\ code.con # "none"
DeclaresScene(code) == code.cls = "declared" /\ code.con = "declared"
HasImportText(code) == code.from_imp \/ code.plain_imp

StageOrder == <<"validate_python_syntax", "validate_manim_imports", "validate_manim_structure",
                "validate_manim_dry_run">>

(***************************************************************************)
(* C11.  The dry-run stage is executed in a validate_code call only if the *)
(* dry-run flag is true and the syntax and the structure stage passed; the *)
(* stages run in the fixed order syntax, (imports,) structure, dry run,    *)
(* and the first failing stage ends the call with a failed verdict.        *)
(***************************************************************************)
C11_StagesInOrderShortCircuit ==
    vcall.made =>
        LET calls == vcall.out.calls
            ran(stage) == \E i \in 1..Len(calls) : calls[i] = stage
        IN  /\ ran("validate_manim_dry_run") =>
                  (vcall.dry_run /\ SyntaxPasses(vcall.code) /\ HasBothTexts(vcall.code))
            /\ Len(calls) <= Len(StageOrder)
            /\ calls = SubSeq(StageOrder, 1, Len(calls))
            /\ ~SyntaxPasses(vcall.code) =>
                  (calls = SubSeq(StageOrder, 1, 1) /\ ~vcall.out.value.is_valid)
            /\ (SyntaxPasses(vcall.code) /\ ~HasBothTexts(vcall.code)) =>
                  (calls = SubSeq(StageOrder, 1, 3) /\ ~vcall.out.value.is_valid)
            /\ (ran("validate_manim_dry_run") /\ vcall.run.kind \in {"nonzero", "timeout", "exception"})
                  => (vcall.out.raised = None /\ ~vcall.out.value.is_valid)

\* a call that went through all four stages and failed in the last one
C11_Witness ==
    /\ vcall.made
    /\ vcall.out.calls = StageOrder
    /\ vcall.run.kind = "nonzero"
    /\ vcall.out.raised = None
    /\ ~vcall.out.value.is_valid

(***************************************************************************)
(* C12.  The structure stage rejects every script that does not declare a  *)
(* class GeneratedScene with a method construct: validate_code returns     *)
(* is_valid = false with an error for it, and a script passes the stage    *)
(* only if it declares that class and that method.                         *)
(***************************************************************************)
C12_StructureRequiresDeclaration ==
    (vcall.made /\ SyntaxPasses(vcall.code) /\ ~DeclaresScene(vcall.code))
        => /\ ~validate_manim_structure(vcall.code).is_valid
           /\ vcall.out.raised = None
           /\ ~vcall.out.value.is_valid
           /\ vcall.out.value.errors # <<>>

(***************************************************************************)
(* C13.  The imports check never blocks: a script without the manim import *)
(* gets one more warning, and is_valid and errors of the verdict are those *)
(* of the same call on the same script with the import.                    *)
(***************************************************************************)
C13_ImportsOnlyWarn ==
    (vcall.made /\ SyntaxPasses(vcall.code) /\ ~HasImportText(vcall.code))
        => LET with_import == validate_code([vcall.code EXCEPT !.from_imp = TRUE],
                                            vcall.dry_run, vcall.run)
           IN  /\ vcall.out.raised = with_import.raised
               /\ vcall.out.calls = with_import.calls
               /\ vcall.out.raised = None =>
                     /\ vcall.out.value.is_valid = with_import.value.is_valid
                     /\ vcall.out.value.errors = with_import.value.errors
                     /\ vcall.out.value.warnings =
                           <<"Code may be missing Manim imports">> \o with_import.value.warnings

\* a script without the import that is accepted, with the warning
C13_Witness ==
    /\ vcall.made
    /\ ~HasImportText(vcall.code)
    /\ vcall.dry_run
    /\ vcall.out.raised = None
    /\ vcall.out.value.is_valid
    /\ vcall.out.value.warnings = <<"Code may be missing Manim imports">>

(***************************************************************************)
(* C14.  A spawn failure, a timeout and a cancellation of the dry run are  *)
(* all returned by validate_code as a verdict with is_valid = false (the   *)
(* timeout with a timeout-labelled error); none is raised.                 *)
(***************************************************************************)
DryRunReached == vcall.made /\ vcall.out.calls = StageOrder

C14_FailuresReturnedNeverRaised ==
    (DryRunReached /\ vcall.run.kind \in {"exception", "timeout", "cancelled"})
        => /\ vcall.out.raised = None
           /\ ~vcall.out.value.is_valid
           /\ vcall.run.kind = "timeout" =>
                 vcall.out.value.errors = <<"Validation timeout after 600 seconds">>

(***************************************************************************)
(* C14, amended.  A spawn failure (or another exception) and a timeout of  *)
(* the dry run are returned by validate_code as a verdict with is_valid =  *)
(* false and one labelled error; a cancellation is not returned: the       *)
(* CancelledError is raised again to the caller of validate_code.          *)
(***************************************************************************)
C14_FailuresReturnedCancelRaised ==
    DryRunReached =>
        /\ vcall.run.kind \in {"exception", "timeout"} =>
              /\ vcall.out.raised = None
              /\ ~vcall.out.value.is_valid
              /\ vcall.out.value.errors =
                    IF vcall.run.kind = "timeout"
                    THEN <<"Validation timeout after 600 seconds">>
                    ELSE <<"Validation error: {str(e)}">>
        /\ vcall.run.kind = "cancelled" <=> vcall.out.raised = "CancelledError"
        /\ vcall.out.raised \in {None, "CancelledError"}

\* a dry run that timed out, reported as a failed verdict
C14_Witness ==
    /\ DryRunReached
    /\ vcall.run.kind = "timeout"
    /\ vcall.out.raised = None
    /\ ~vcall.out.value.is_valid


\* the function has handed control back to its caller
SubEnded(fn) == sub.fn = fn /\ sub.pc \in {"done", "task_done"}

(***************************************************************************)
(* C15.  On every exit path of the dry-run stage once the scratch          *)
(* directory has been created, when control returns or the cancellation    *)
(* propagates to the caller the scratch directory has been removed and the *)
(* renderer subprocess is no longer running.                               *)
(***************************************************************************)
C15_DryRunLeavesNothingBehind ==
    (SubEnded("validate_manim_dry_run") /\ sub.temp_dir # "none")
        => (sub.temp_dir = "removed" /\ sub.process \in {"none", "exited"})

(***************************************************************************)
(* C16.  No exit path of a failed or cancelled render leaves its scratch   *)
(* directory or its subprocess behind: when the failure or the             *)
(* cancellation reaches the caller the subprocess has exited and the       *)
(* scratch directory has been removed.                                     *)
(***************************************************************************)
C16_RenderLeavesNothingBehind ==
    (SubEnded("render_manim_video") /\ sub.raising # None)
        => (sub.temp_dir = "removed" /\ sub.process \in {"none", "exited"})


(***************************************************************************)
(* C17.  An exception raised by the generation call or by the validator    *)
(* aborts the loop of that submission: the run makes no further step (no   *)
(* retry, no further generation or validation), the failing step appends   *)
(* no Iteration record and leaves the workflow state as it was, and the    *)
(* caller surfaces an error (HTTP 500 from the blocking endpoint, Status   *)
(* failed from the background task) and not success or                     *)
(* max_iterations_reached.                                                 *)
(***************************************************************************)
C17_FailureAbortsLoop ==
    [][\A id \in Ids :
        /\ wf[id].pc = "raised" => wf'[id] = wf[id]
        /\ wf'[id].raised # None => wf'[id].pc = "raised"
        /\ (wf[id].pc \in {"generate", "validate"} /\ wf'[id].pc = "raised") =>
              /\ wf'[id].state = wf[id].state
              /\ wf'[id].state.status \notin {"success", "max_iterations_reached"}
        /\ (wf[id].pc = "raised" /\ req[id].pc = "running" /\ req'[id].pc = "done") =>
              IF req[id].mode = "blocking"
              THEN req'[id].http = "500" /\ heap'[id] = heap[id]
              ELSE id \in sessions => heap'[id].status = "failed"
      ]_vars

\* a background run whose generation call raised, reported as failed
C17_Witness ==
    \E id \in Ids :
        /\ wf[id].pc = "raised"
        /\ wf[id].raised = "APIError"
        /\ wf[id].state.iterations_history = <<>>
        /\ req[id].mode = "background"
        /\ req[id].pc = "done"
        /\ heap[id].status = "failed"


(***************************************************************************)
(* C18.  create_session stores the new session under an id different from  *)
(* the id of every session already in the store (and from every id handed  *)
(* out before), with Status generating, iteration counter 0 and an empty   *)
(* Iteration list, and leaves every other stored session unchanged.        *)
(***************************************************************************)
\* a session object that update_session has never stamped appears under id
CreateStep(id) == heap'[id] # heap[id] /\ heap'[id].updated_at = 0

C18_CreateStoresFreshSession ==
    [][\A id \in StoreIds :
        CreateStep(id) =>
            /\ id \notin sessions
            /\ ~Created(id)
            /\ id \in sessions'
            /\ heap'[id].status = "generating"
            /\ heap'[id].current_iteration = 0
            /\ heap'[id].iterations = <<>>
            /\ get_session(sessions', heap', id) = heap'[id]
            /\ \A other \in StoreIds \ {id} :
                  /\ heap'[other] = heap[other]
                  /\ (other \in sessions') = (other \in sessions)
      ]_vars

\* two sessions in the store, the first of them already changed when the second was created
C18_Witness ==
    /\ sessions = StoreIds
    /\ heap["s1"].final_code # NoneRec
    /\ heap["s2"].status = "generating"
    /\ heap["s2"].iterations = <<>>
    /\ heap["s2"].updated_at = 0

(***************************************************************************)
(* C19.  Right after a session was deleted (delete_session returned true)  *)
(* get_session returns no session and fetching its status returns 404;     *)
(* deleting an id that is not in the store returns 404 and changes         *)
(* nothing; a status request is answered 404 exactly when the id is not in *)
(* the store.                                                              *)
(***************************************************************************)
\* a delete request for id is answered
DeleteStep(id) ==
    /\ resp'[id].op = "delete"
    /\ resp'[id] # resp[id] \/ (id \in sessions /\ id \notin sessions')

C19_DeletedIsNotFound ==
    [][\A id \in StoreIds :
        /\ (DeleteStep(id) /\ resp'[id].http = "200") =>
              /\ id \in sessions
              /\ get_session(sessions', heap', id) = NoneRec
              /\ get_session_status(sessions', heap', id) = "404"
              /\ sessions' = sessions \ {id}
              /\ heap' = heap
        /\ (DeleteStep(id) /\ resp'[id].http = "404") =>
              /\ id \notin sessions
              /\ sessions' = sessions /\ heap' = heap
        /\ (resp'[id].op = "status" /\ resp'[id] # resp[id]) =>
              (resp'[id].http = "404" <=> id \notin sessions)
      ]_vars

\* a session that was created and deleted, its status then fetched: 404
C19_Witness ==
    /\ Created("s1")
    /\ "s1" \notin sessions
    /\ resp["s1"] = [op |-> "status", http |-> "404"]
    /\ "s2" \in sessions

(***************************************************************************)
(* C20.  Every change of a stored session is followed by the stamp of      *)
(* update_session: whenever the state of a stored session changes its      *)
(* updated_at grows, and updated_at never decreases.                       *)
(***************************************************************************)
C20_EveryChangeIsStamped ==
    [][\A id \in Ids :
        (Created(id) /\ id \in sessions /\ heap'[id] # heap[id])
            => heap'[id].updated_at > heap[id].updated_at
      ]_vars



(***************************************************************************)
(* C21: cleanup_old_sessions removes exactly the stored sessions whose     *)
(* last update is older than the threshold, returns how many it removed    *)
(* and changes no other session, whatever the Status of a session and      *)
(* whether or not its loop is still in flight.                             *)
(***************************************************************************)
CleanupStep == ret' # ret

C21_CleanupRemovesExactlyTheOld ==
    [][CleanupStep =>
          LET old == {id \in sessions : heap[id].updated_at < ret'.cutoff_time}
          IN  /\ sessions' = sessions \ old
              /\ ret'.returned = Cardinality(old)
              /\ heap' = heap
              /\ \A id \in sessions :
                     (heap[id].status = "generating" /\ req[id].pc = "queued"
                        /\ heap[id].updated_at < ret'.cutoff_time) => id \notin sessions']_vars

\* a cleanup removed one session whose background task had not started, and kept a newer one
C21_Witness ==
    /\ ret.op = "cleanup" /\ ret.returned = 1
    /\ \E id \in StoreIds \ sessions :
           /\ Created(id) /\ heap[id].status = "generating" /\ req[id].pc = "queued"
           /\ heap[id].updated_at < ret.cutoff_time
    /\ \E id \in sessions : heap[id].updated_at >= ret.cutoff_time /\ ret.cutoff_time > 0


(***************************************************************************)
(* C26: a stored session has final_code only on success: its Status is     *)
(* success and the script in final_code is the script of one of its        *)
(* Iteration records with a valid verdict; a session in                    *)
(* max_iterations_reached or failed has none.                              *)
(***************************************************************************)
ValidatedScript(session, code) ==
    \E k \in 1..Len(session.iterations) :
        /\ session.iterations[k].generated_code = code
        /\ session.iterations[k].validation_result # NoneRec
        /\ session.iterations[k].validation_result.is_valid

C26_FinalCodeOnlyOnSuccess ==
    \A id \in sessions :
        heap[id].final_code # NoneRec =>
            /\ heap[id].status = "success"
            /\ ValidatedScript(heap[id], heap[id].final_code)


(***************************************************************************)
(* C27: a Validate step whose script the validator rejects (at the syntax, *)
(* the structure or the dry-run stage) raises nothing: the verdict is kept *)
(* in the Iteration record the step appends and the loop goes on to        *)
(* refine, or to max_iterations when the budget is used up.                *)
(***************************************************************************)
C27_RejectionsStayInTheLoop ==
    [][\A id \in Ids :
        (wf[id].pc = "validate" /\ wf'[id] # wf[id]) =>
            LET s == wf[id].state
                verdict == validate_code(s.generated_code, TRUE, wf'[id].env)
                history == wf'[id].state.iterations_history
            IN  (verdict.raised = None /\ ~verdict.value.is_valid) =>
                    /\ wf'[id].pc = "decide"
                    /\ wf'[id].raised = None
                    /\ Len(history) = Len(s.iterations_history) + 1
                    /\ history[Len(history)].validation_result = verdict.value
                    /\ decide_next_step(wf'[id].state) \in {"refine", "max_iterations"}
      ]_vars


(***************************************************************************)
(* C28: when the graph has ended through max_iterations, the response      *)
(* built from its final state carries the script and the verdict of the    *)
(* last Iteration record of the history.                                   *)
(***************************************************************************)
Exhausted(r) ==
    /\ r.pc = "END"
    /\ r.state.status = "max_iterations_reached"
    /\ r.state.iterations_history # <<>>

C28_ExhaustedReturnsLastRecord ==
    \A id \in Ids :
        Exhausted(wf[id]) =>
            LET history == wf[id].state.iterations_history
                last_iteration == history[Len(history)]
                response == IterativeGenerationResponse(wf[id].state)
            IN  /\ response.status = "max_iterations_reached"
                /\ response.generated_code = last_iteration.generated_code
                /\ response.validation_result = last_iteration.validation_result
                /\ ~response.validation_result.is_valid

\* an exhausted run whose last record rejects the script with at least one error
C28_Witness ==
    \E id \in Ids :
        /\ Exhausted(wf[id])
        /\ Len(wf[id].state.iterations_history) = MaxRecords
        /\ IterativeGenerationResponse(wf[id].state).validation_result.errors # <<>>


(***************************************************************************)
(* C29: the Iteration list of a stored session is append-only: after any   *)
(* step (write-back of a run, replay through the updater, manual update)   *)
(* the records it held are still there, unchanged and in the same places.  *)
(***************************************************************************)
IsPrefix(s, t) == Len(s) <= Len(t) /\ SubSeq(t, 1, Len(s)) = s

RenderStep(id) == resp'[id].op = "render" /\ resp'[id] # resp[id]

C30_RenderOnlyWhenIdleWithFinalCode ==
    [][\A id \in Ids :
          RenderStep(id) =>
              LET stored == id \in sessions
                  accepted == stored /\ heap[id].final_code # NoneRec
                                /\ ~RenderInProgress(heap[id])
              IN  /\ ~stored => resp'[id].http = "404"
                  /\ (stored /\ heap[id].final_code = NoneRec) => resp'[id].http = "400"
                  /\ (stored /\ heap[id].final_code # NoneRec /\ RenderInProgress(heap[id]))
                        => resp'[id].http = "409"
                  /\ ~accepted => /\ heap' = heap /\ sessions' = sessions
                                  /\ ~resp'[id].task_added
                                  /\ resp'[id].http \in {"400", "404", "409"}
                  /\ accepted => heap'[id].render_status = "queued"]_vars

\* a second render request met the render queued by the first one
C30_Witness ==
    \E id \in Ids :
        /\ resp[id].op = "render" /\ resp[id].http = "409"
        /\ id \in sessions /\ heap[id].render_status = "queued"
        /\ heap[id].final_code # NoneRec


(***************************************************************************)
(* C22: in the incremental modes the progress records are, in order, one   *)
(* for each state transition the loop has made (generate, validate,        *)
(* refine, complete, max_iterations): none is missing, doubled or out of   *)
(* place.                                                                  *)
(***************************************************************************)
IsProgress(record) == record.event = "progress"
ReportedNodes(records) ==
    [k \in 1..Len(SelectSeq(records, IsProgress)) |-> SelectSeq(records, IsProgress)[k].node]

Emitted(id) ==
    /\ Len(chan'[id].records) = Len(chan[id].records) + 1
    /\ IsProgress(chan'[id].records[Len(chan'[id].records)])

FunctionReturned(id) == wf[id].pc = "END" /\ chan[id].pass \in {"ainvoke", "done"}

C25_LoopNeverWaitsForAGoneConsumer ==
    \A id \in Ids : chan[id].consumer = "gone" => ~chan[id].awaiting


(***************************************************************************)
(* C31: when the generation call of a run failed and the request or task   *)
(* that started the run has ended, the stored session has the Status       *)
(* failed, whether the run was started by the blocking route or by the     *)
(* background task.                                                        *)
(***************************************************************************)
GenerationCallFailed(id) == wf[id].pc = "raised" /\ wf[id].raised = "APIError"

C31_GenerationFailureEndsFailed ==
    \A id \in Ids :
        (GenerationCallFailed(id) /\ req[id].pc = "done" /\ id \in sessions)
            => heap[id].status = "failed"


(***************************************************************************)
(* C32: the Decide step leaves the state of the loop as it is, and the     *)
(* edge it takes is the one it takes from any state with the same          *)
(* is_valid, the same iteration counter and the same max_iterations.       *)
(***************************************************************************)
SameDecisionInputs(s, u) ==
    /\ s.validation_result.is_valid = u.validation_result.is_valid
    /\ s.current_iteration = u.current_iteration
    /\ s.max_iterations = u.max_iterations

C32_DecideIsPure ==
    [][\A id \in Ids :
          (wf[id].pc = "decide" /\ wf'[id] # wf[id]) =>
              /\ wf'[id].state = wf[id].state
              /\ wf'[id].raised = wf[id].raised
              /\ heap' = heap /\ sessions' = sessions
              /\ \A u \in RouterInputs :
                     SameDecisionInputs(wf[id].state, u) =>
                         wf'[id].pc = conditional_edges[decide_next_step(u)]]_vars

\* the edge to refine was taken from a state that carries a stale error message
C32_Witness ==
    \E id \in Ids :
        /\ wf[id].pc = "refine"
        /\ wf[id].state.error_message # None
        /\ wf[id].state.status = "validating"


(***************************************************************************)
(* C33: the refine node sets Status refining and nothing else; the         *)
(* complete node sets Status success and clears the error message; the     *)
(* max_iterations node sets Status max_iterations_reached and the fixed    *)
(* error message; none of them changes the counter, the history, the       *)
(* script, the verdict or any other field of the state.                    *)
(***************************************************************************)
NodeRan(id, node) == wf[id].pc = node /\ wf'[id] # wf[id]

C33_TerminalAndRefineNodesFrame ==
    [][\A id \in Ids :
          LET s == wf[id].state
              u == wf'[id].state
          IN  /\ NodeRan(id, "refine") =>
                    /\ wf'[id].pc = "generate"
                    /\ u = [s EXCEPT !.status = "refining"]
              /\ NodeRan(id, "complete") =>
                    /\ wf'[id].pc = "END"
                    /\ u = [s EXCEPT !.status = "success", !.error_message = None]
              /\ NodeRan(id, "max_iterations") =>
                    /\ wf'[id].pc = "END"
                    /\ u = [s EXCEPT
                              !.status = "max_iterations_reached",
                              !.error_message =
                                  "Maximum iterations reached. Code still has validation errors."]
              /\ (NodeRan(id, "refine") \/ NodeRan(id, "complete")
                    \/ NodeRan(id, "max_iterations")) =>
                    /\ u.current_iteration = s.current_iteration
                    /\ u.iterations_history = s.iterations_history
                    /\ u.generated_code = s.generated_code
                    /\ u.validation_result = s.validation_result]_vars

\* the refine node ran on a state that carried an error message, and kept it
C33_Witness ==
    \E id \in Ids :
        /\ wf[id].pc = "generate"
        /\ wf[id].state.status = "refining"
        /\ wf[id].state.error_message # None


(***************************************************************************)
(* C34: a Generate step at iteration counter 0 sends the original          *)
(* instruction alone; any later Generate step sends the instruction with   *)
(* the script, the errors and the warnings of the last Iteration record of *)
(* the history, not of an older one.                                       *)
(***************************************************************************)
C34_RefinementUsesLastRecord ==
    [][\A id \in Ids :
          (wf[id].pc = "generate" /\ wf'[id].pc = "validate") =>
              LET s == wf[id].state
                  sent == wf'[id].state.messages[Len(wf'[id].state.messages)]
                  last_iteration == s.iterations_history[Len(s.iterations_history)]
              IN  /\ Len(wf'[id].state.messages) = Len(s.messages) + 1
                  /\ IF s.current_iteration = 0
                     THEN sent = [kind |-> "prompt"]
                     ELSE /\ sent.kind = "refinement"
                          /\ sent.previous_code = last_iteration.generated_code
                          /\ sent.errors = last_iteration.validation_result.errors
                          /\ sent.warnings = last_iteration.validation_result.warnings]_vars

\* a refinement request was built from the second of two records that differ
C34_Witness ==
    \E id \in Ids :
        /\ wf[id].pc = "validate"
        /\ Len(wf[id].state.iterations_history) = MaxRecords
        /\ wf[id].state.messages # <<>>
        /\ LET sent == wf[id].state.messages[Len(wf[id].state.messages)]
           IN  /\ sent.kind = "refinement"
               /\ sent.previous_code # wf[id].state.iterations_history[1].generated_code
               /\ sent.errors # wf[id].state.iterations_history[1].validation_result.errors


(***************************************************************************)
(* C35: a turn of the polling stream that finds the session stored, its    *)
(* generation in a terminal Status and its render completed, failed or     *)
(* never started, sends the 'done' event and ends the stream.              *)
(***************************************************************************)
TerminalStatus(session) == session.status \in {"success", "max_iterations_reached", "failed"}

SsePolled(id) == resp[id].op = "sse" /\ ~resp[id].closed /\ resp'[id] # resp[id]

C35_StreamEndsAtTerminalSession ==
    [][\A id \in Ids :
          (/\ SsePolled(id)
           /\ id \in sessions
           /\ TerminalStatus(heap[id])
           /\ heap[id].render_status \in {None, "completed", "failed"})
              => (resp'[id].closed /\ resp'[id].last = "done")]_vars

(***************************************************************************)
(* C36: an id that delete_session has removed stays absent from the store: *)
(* no step puts an id that was created and is no longer stored back in.    *)
(***************************************************************************)
Deleted(id) == Created(id) /\ id \notin sessions

C36_DeletedStaysAbsent ==
    [][\A id \in Ids : Deleted(id) => id \notin sessions']_vars

(***************************************************************************)
(* C37: a stored session whose Status is terminal (success, failed or      *)
(* max_iterations_reached) keeps a terminal Status in every later step.    *)
(***************************************************************************)
C37_TerminalStatusIsKept ==
    [][\A id \in Ids :
          (id \in sessions /\ TerminalStatus(heap[id]) /\ id \in sessions')
              => TerminalStatus(heap'[id])]_vars

(***************************************************************************)
(* C38: every stored session has current_iteration equal to the number of  *)
(* its Iteration records (the states of the model are the suspension       *)
(* points of the handlers).                                                *)
(***************************************************************************)
C38_CurrentIterationCountsRecords ==
    \A id \in sessions : heap[id].current_iteration = Len(heap[id].iterations)

(***************************************************************************)
(* C39: a render status never stays queued for ever.  In the form a finite *)
(* run refutes: every step that leaves a stored session with render status *)
(* queued has added the render task, the only code that moves the status   *)
(* on to completed or failed.                                              *)
(***************************************************************************)
RenderQueuedBy(id) ==
    /\ id \in sessions'
    /\ heap'[id].render_status = "queued"
    /\ (id \notin sessions \/ heap[id].render_status # "queued")

C39_QueuedRenderHasItsTask ==
    [][\A id \in Ids :
          RenderQueuedBy(id) => (resp'[id].op = "render" /\ resp'[id].task_added)]_vars

(***************************************************************************)
(* C40: every verdict validate_code returns with is_valid = false carries  *)
(* at least one error, whichever stage rejected the script.                *)
(***************************************************************************)
RejectedVerdict ==
    vcall.made /\ vcall.out.raised = None /\ ~vcall.out.value.is_valid

C40_RejectionCarriesAnError ==
    RejectedVerdict => Len(vcall.out.value.errors) >= 1

\* the dry run exits non-zero and no stderr line has a marker
C40_Witness ==
    /\ RejectedVerdict
    /\ vcall.run.kind = "nonzero" /\ ExtractErrors(vcall.run.stderr) = <<>>
    /\ vcall.out.calls[Len(vcall.out.calls)] = "validate_manim_dry_run"
    /\ Len(vcall.out.value.errors) = 1

=============================================================================
